---- MODULE Spec2Model ----
(***************************************************************************)
(* photinia/io/data.py: the data-source pipeline.                          *)
(*   MemorySource          columns in memory, a cursor and an epoch count  *)
(*   BatchSource           groups the rows of a wrapped source             *)
(*   ThreadBufferedSource  a prefetch worker thread and a queue            *)
(* Python indexes from 0 and TLA+ sequences from 1: the row at cursor      *)
(* _start is element _start + 1 of each column.                            *)
(***************************************************************************)
EXTENDS Integers, Sequences, FiniteSets, TLC

\* ------------------------------------------------------------------ bounds
MaxSize == 2        \* rows of a MemorySource called directly: 0..MaxSize
MaxRows == 3        \* rows of a MemorySource called through next() alone: 0..MaxRows
MaxLoop == 2        \* the epoch counter is explored up to this value
MaxReq == 3         \* next_batch(n) is called with n in 0..MaxReq
MaxPasses == 1      \* shuffle(num) is called with num in 0..MaxPasses
MaxBatch == 3       \* a BatchSource is built with batch_size in 0..MaxBatch
MaxBuf == 3         \* a ThreadBufferedSource is built with buffer_size in 1..MaxBuf
MaxCalls == 4       \* calls of the wrapped source's next() that are explored
MaxRegs == 2        \* add_cell_fns / add_column_fns calls made on a BatchSource
MaxCols == 2        \* MemorySource(columns, ...) is called with 0..MaxCols columns
MaxEmpty == 3       \* batches a BatchSource of negative batch size is asked for
MaxReads == 5       \* calls of next() on a CSVSource's reader that are explored
MaxThreads == 2     \* Thread objects made when two threads call next()
MaxRaceCalls == 2   \* calls of the wrapped source's next() explored then
MaxRaceGets == 1    \* next() calls that have ended before one is begun then
MaxGets == 3        \* next() calls one consumer makes when every call is to end
MaxRaceBuf == 1     \* the buffer_size of a ThreadBufferedSource called so: 1..MaxRaceBuf
MaxTrainables == 2  \* Trainable objects made

\* ------------------------------------------------------- program constants
DefaultPasses == 3  \* def shuffle(self, num=3)

\* column_names: the datasets explored have two columns, x and y
Meta == <<"x", "y">>

\* The datasets explored: column x holds any of Cells1, column y any of Cells2.
Cells1 == {1, 2}
Cells2 == {"a", "b"}

VARIABLES
    \* MemorySource
    columns,        \* self._columns: NumComp sequences of equal length
    size,           \* self._size
    start,          \* self._start
    loop,           \* self._loop
    nb,             \* the next_batch call in progress (its while loop), or NoCall
    mlast,          \* the last MemorySource call that returned: what it was given,
                    \* the fields when it was made, what it returned
    served          \* rows next() has returned since the loop counter last changed

VARIABLES
    \* BatchSource (its input source is the MemorySource above)
    batch_size,     \* self._batch_size
    input_raises,   \* whether self._input_source is one whose next() can raise
    eof,            \* self._eof
    cell_fns,       \* self._cell_fns: column name -> the functions registered
    column_fns,     \* self._column_fns: column name -> the functions registered
    blast,          \* the last BatchSource.next call: eof and the input's fields (m)
                    \* when it was made, what it returned, the calls it made of the
                    \* input's next(), whether one of them returned the epoch marker
    pass,           \* the pass in progress: the rows fetched from the input and
                    \* the batches returned since the last epoch marker was returned
    done,           \* when the last call returned the epoch marker: the same for
                    \* the pass it ended
    markers,        \* epoch markers BatchSource.next has returned
    registered      \* the add_cell_fns / add_column_fns calls that returned, in
                    \* call order: which of the two, the column names, the callables

memVars == <<columns, size, start, loop, nb, mlast, served>>
\* self._num_comp = len(columns)
NumComp == Len(columns)
batchVars == <<batch_size, input_raises, eof, cell_fns, column_fns, blast, pass, done, markers,
               registered>>
VARIABLES
    \* ThreadBufferedSource over a source of its own
    buffer_size,    \* self._buffer_size
    load_threshold, \* self._load_threshold
    queue,          \* self._queue
    thread,         \* self._thread: 0 for None, else the thread's number
    workers,        \* the threads running _load that are alive: number -> [pc, i, row]
    nthreads,       \* worker threads started so far
    main_alive,     \* self._main_thread.is_alive()
    cpc,            \* where each consumer thread is in next()
    calls,          \* calls made of the wrapped source's next()
    fetched,        \* what each of them returned or raised, in call order
    out             \* what next() returned or raised to the consumer, in order

tbsVars == <<buffer_size, load_threshold, queue, thread, workers, nthreads,
             main_alive, cpc, calls, fetched, out>>

VARIABLES
    \* CSVSource (its internal MemorySource, once built, is the one above)
    csv_fields,     \* the field names of the stream's header row
    csv_records,    \* the records of the stream: each maps the header's fields to cells
    csv_pos,        \* records self._iter has handed out
    csv_iter,       \* self._iter is not None
    csv_columns,    \* self._columns: one buffer per name of Meta; <<>> for None
    csv_memory,     \* self._memory_source is not None
    csv_reads,      \* calls of next(self._iter) made
    csv_last        \* the last CSVSource.next call: iterator position and buffers
                    \* when it was made, where it was answered from, what it
                    \* returned or raised

csvVars == <<csv_fields, csv_records, csv_pos, csv_iter, csv_columns, csv_memory,
             csv_reads, csv_last>>

VARIABLES
    \* An iteration of the MemorySource above through DataSource.__next__
    it_rows,        \* what __next__ has returned since it last raised StopIteration
    it_prev,        \* when the last __next__ raised StopIteration: what the
                    \* iteration it ended had returned
    it_stops,       \* times __next__ has raised StopIteration
    it_last         \* the last __next__ call: what next() returned to it, and
                    \* what it returned or that it raised StopIteration

iterVars == <<it_rows, it_prev, it_stops, it_last>>

VARIABLES
    \* Constructor calls
    mem_args,       \* MemorySource(columns, column_names): the two arguments
    mem_made,       \* "" before the call, then "ok" or the error __init__ raised
    meta,           \* self._meta of the MemorySource
    tbs_args,       \* ThreadBufferedSource(input_source, buffer_size): buffer_size
    tbs_made        \* "" before the call, then "ok" or the error __init__ raised

newVars == <<mem_args, mem_made, meta, tbs_args, tbs_made>>

VARIABLES
    \* ThreadBufferedSource called by more than one thread
    thread_lock,    \* self._thread_lock: the value of the semaphore
    unstarted,      \* the Thread objects made and not yet started
    raced           \* whether a caller has found no live worker while another,
                    \* having found the same, had yet to make its Thread object

raceVars == <<thread_lock, unstarted, raced>>

VARIABLES
    \* A MemorySource called through next() and next_batch(n) together
    reshuffled,     \* whether shuffle() has been called since self._loop was
                    \* last incremented
    block           \* the rows next_batch has handed out, in order, since the
                    \* last multiple of self._size of them was reached

epochVars == <<reshuffled, block>>

VARIABLES
    \* photinia/core/widgets.py: the widgets one thread makes, builds and sets up
    trainables,     \* the Trainable objects made, in order of construction: each
                    \* its _name, _scope, _full_name, _prefix and _built
    INSTANCES,      \* Trainable.INSTANCES: full name -> the number of the object
    build_called,   \* of each object, whether _build has been called on it
    wlast           \* the last build() or setup() call: the object, whether it
                    \* called _build or _setup, the error it raised or ""

widgetVars == <<trainables, INSTANCES, build_called, wlast>>
restVars == <<epochVars, widgetVars>>
extraVars == <<csvVars, iterVars, newVars, raceVars, restVars>>
vars == <<memVars, batchVars, tbsVars, extraVars>>

\* ------------------------------------------------------------ return values
None == [kind |-> "none", val |-> <<>>]
RowVal(r) == [kind |-> "row", val |-> r]
BatchVal(b) == [kind |-> "batch", val |-> b]

NoCall == [active |-> FALSE]
NoLast == [op |-> "init"]

\* ------------------------------------------------------------- MemorySource
\* tuple(column[self._start] for column in self._columns)
RowAt(cols, i) == [c \in 1..NumComp |-> cols[c][i + 1]]

\* column[a:b] for every column (Python slice, 0-based, b exclusive, clipped)
Min(a, b) == IF a < b THEN a ELSE b
Slice(cols, a, b) ==
    [c \in 1..NumComp |-> SubSeq(cols[c], a + 1, Min(b, Len(cols[c])))]

\* np.concatenate((batch[i], batch1[i]), 0) for every column
Concat(b1, b2) == [c \in 1..NumComp |-> b1[c] \o b2[c]]

\* The orders np.random.shuffle can leave an array of n elements in.
Perms(n) == {p \in [1..n -> 1..n] : \A i, j \in 1..n : p[i] = p[j] => i = j}
Reorder(p, q) == [i \in 1..Len(p) |-> p[q[i]]]

\* for _ in range(num): np.random.shuffle(perm), on each of perms (of n elements)
RECURSIVE ShuffledPerms(_, _, _)
ShuffledPerms(perms, n, num) ==
    IF num <= 0 THEN perms
    ELSE ShuffledPerms({Reorder(p, q) : p \in perms, q \in Perms(n)}, n, num - 1)

\* np.arange(n)
Arange(n) == [i \in 1..n |-> i]

\* perm = np.arange(self._size); for _ in range(num): np.random.shuffle(perm):
\* the values perm can have
ShuffledOrders(num) == ShuffledPerms({Arange(size)}, size, num)

\* column[perm]
Take(col, perm) == [i \in 1..Len(perm) |-> col[perm[i]]]

\* A slip shuffle could make: a permutation drawn per column.
ShuffleEachColumn(cols, num) ==
    {[c \in 1..NumComp |-> Take(cols[c], ps[c])] :
        ps \in [1..NumComp -> ShuffledOrders(num)]}

\* A slip shuffle could make: indexes drawn with replacement.
ShuffleWithReplacement(cols, num) ==
    {[c \in 1..NumComp |-> Take(cols[c], perm)] :
        perm \in IF num <= 0 THEN {Arange(size)} ELSE [1..size -> 1..size]}

\* MemorySource.shuffle: the values self._columns can have after the call
Shuffle(cols, num) ==
    {[c \in 1..NumComp |-> Take(cols[c], perm)] :
        perm \in ShuffledOrders(num)}

\* MemorySource.__init__ on two columns of n rows each
MemInitOf(n) ==
    /\ size = n
    /\ columns \in {<<c1, c2>> : c1 \in [1..n -> Cells1], c2 \in [1..n -> Cells2]}
    /\ start = 0
    /\ loop = 0
    /\ nb = NoCall
    /\ mlast = NoLast
    /\ served = 0

Pre(op, n) ==
    [op |-> op, n |-> n, size |-> size, start |-> start, loop |-> loop,
     columns |-> columns, served |-> served]
Returned(pre, ret) ==
    [op |-> pre.op, n |-> pre.n, size |-> pre.size, start |-> pre.start,
     loop |-> pre.loop, columns |-> pre.columns, served |-> pre.served, ret |-> ret]

\* A slip next could make: the rollover leaves the cursor where it is.
NextKeepsCursor(cols, st, lp) ==
    IF st >= size
    THEN {[ret |-> None, columns |-> c, start |-> st, loop |-> lp + 1] :
            c \in Shuffle(cols, DefaultPasses)}
    ELSE {[ret |-> RowVal(RowAt(cols, st)), columns |-> cols,
           start |-> st + 1, loop |-> lp]}

\* A slip next could make: the rollover does not count the epoch.
NextKeepsLoop(cols, st, lp) ==
    IF st >= size
    THEN {[ret |-> None, columns |-> c, start |-> 0, loop |-> lp] :
            c \in Shuffle(cols, DefaultPasses)}
    ELSE {[ret |-> RowVal(RowAt(cols, st)), columns |-> cols,
           start |-> st + 1, loop |-> lp]}

\* MemorySource.next: the set of [ret, columns, start, loop] the call can end with
NextResults(cols, st, lp) ==
    IF st >= size
    THEN {[ret |-> None, columns |-> c, start |-> 0, loop |-> lp + 1] :
            c \in Shuffle(cols, DefaultPasses)}
    ELSE {[ret |-> RowVal(RowAt(cols, st)), columns |-> cols,
           start |-> st + 1, loop |-> lp]}

MemNext ==
    /\ nb = NoCall
    /\ \E r \in NextResults(columns, start, loop) :
        /\ r.loop <= MaxLoop
        /\ columns' = r.columns
        /\ start' = r.start
        /\ loop' = r.loop
        /\ mlast' = Returned(Pre("next", 0), r.ret)
        /\ served' = IF r.ret = None THEN 0 ELSE served + 1
    /\ UNCHANGED <<size, nb>>

\* A slip _next_batch could make: the cursor advances past the end.
NextBatchChunkNoWrap(n) ==
    LET shuffled == IF start = 0 /\ loop # 0
                    THEN Shuffle(columns, DefaultPasses) ELSE {columns}
        end == start + n
    IN  {IF end < size
         THEN [batch |-> Slice(cols, start, end), columns |-> cols,
               start |-> start + n, loop |-> loop]
         ELSE [batch |-> Slice(cols, start, size), columns |-> cols,
               start |-> start + n, loop |-> loop + 1] : cols \in shuffled}

\* A slip _next_batch could make: shuffle() at the head of every call.
NextBatchChunkAlwaysShuffles(n) ==
    LET shuffled == Shuffle(columns, DefaultPasses)
        end == start + n
    IN  {IF end < size
         THEN [batch |-> Slice(cols, start, end), columns |-> cols,
               start |-> start + n, loop |-> loop]
         ELSE [batch |-> Slice(cols, start, size), columns |-> cols,
               start |-> 0, loop |-> loop + 1] : cols \in shuffled}

\* MemorySource._next_batch(n) with n > 0: the shuffle at the head of a pass,
\* then the slice and the cursor. The set of [batch, columns, start, loop]
\* the call can end with.
NextBatchChunk(n) ==
    LET shuffled == IF start = 0 /\ loop # 0
                    THEN Shuffle(columns, DefaultPasses) ELSE {columns}
        end == start + n
    IN  {IF end < size
         THEN [batch |-> Slice(cols, start, end), columns |-> cols,
               start |-> start + n, loop |-> loop]
         ELSE [batch |-> Slice(cols, start, size), columns |-> cols,
               start |-> 0, loop |-> loop + 1] : cols \in shuffled}

\* MemorySource.all
All == columns

\* A slip next_batch could make: no while loop, the first chunk is returned.
NeverMore(real_size, n) == FALSE

\* next_batch: while real_size < size
NeedsMore(real_size, n) == real_size < n

\* MemorySource.next_batch(n), up to the test of its while loop
MemNextBatchAll(n) ==
    /\ nb = NoCall
    /\ n <= 0
    /\ mlast' = Returned(Pre("next_batch", n), BatchVal(All))
    /\ UNCHANGED <<columns, size, start, loop, nb, served>>

MemNextBatchCall(n) ==
    /\ nb = NoCall
    /\ ~(n <= 0)
    /\ \E r \in NextBatchChunk(n) :
        /\ r.loop <= MaxLoop
        /\ columns' = r.columns
        /\ start' = r.start
        /\ loop' = r.loop
        /\ served' = IF r.loop = loop THEN served ELSE 0
        /\ IF NeedsMore(Len(r.batch[1]), n)
           THEN /\ nb' = [active |-> TRUE, pre |-> Pre("next_batch", n),
                          batch |-> r.batch]
                /\ UNCHANGED mlast
           ELSE /\ nb' = NoCall
                /\ mlast' = Returned(Pre("next_batch", n), BatchVal(r.batch))
    /\ UNCHANGED size

\* one turn of the while loop of next_batch
MemNextBatchLoop ==
    /\ nb # NoCall
    /\ \E r \in NextBatchChunk(nb.pre.n - Len(nb.batch[1])) :
        LET batch == Concat(nb.batch, r.batch) IN
        /\ r.loop <= MaxLoop
        /\ columns' = r.columns
        /\ start' = r.start
        /\ loop' = r.loop
        /\ served' = IF r.loop = loop THEN served ELSE 0
        /\ IF NeedsMore(Len(batch[1]), nb.pre.n)
           THEN /\ nb' = [nb EXCEPT !.batch = batch]
                /\ UNCHANGED mlast
           ELSE /\ nb' = NoCall
                /\ mlast' = Returned(nb.pre, BatchVal(batch))
    /\ UNCHANGED size

MemNextBatch == \E n \in 0..MaxReq : MemNextBatchAll(n) \/ MemNextBatchCall(n)

\* MemorySource.shuffle(num)
MemShuffle ==
    \E num \in 0..MaxPasses :
        /\ nb = NoCall
        /\ columns' \in Shuffle(columns, num)
        /\ mlast' = Returned(Pre("shuffle", num), None)
        /\ UNCHANGED <<size, start, loop, nb, served>>

\* MemorySource.all
MemAll ==
    /\ nb = NoCall
    /\ mlast' = Returned(Pre("all", 0), BatchVal(All))
    /\ UNCHANGED <<columns, size, start, loop, nb, served>>

\* ------------------------------------------- MemorySource: passes and shuffles
\* _next_batch, line 105-106: shuffle() is called at the head of the call
ShuffledAtHead == start = 0 /\ loop # 0

\* next(), line 80-83: the loop counter is incremented, then shuffle() is called
MixNext ==
    /\ MemNext
    /\ reshuffled' = IF loop' # loop THEN TRUE ELSE reshuffled
    /\ UNCHANGED block

\* _next_batch(n), n > 0: shuffle() at its head (line 105-106), the slice, then
\* the loop counter is incremented if the slice reached the end (line 113-114)
MixChunk ==
    /\ reshuffled' = IF loop' # loop THEN FALSE ELSE (reshuffled \/ ShuffledAtHead)
    /\ UNCHANGED block

MixNextBatchAll(n) == MemNextBatchAll(n) /\ UNCHANGED epochVars
MixNextBatchCall(n) == MemNextBatchCall(n) /\ MixChunk
MixNextBatchLoop == MemNextBatchLoop /\ MixChunk

\* next_batch, line 92 and 97-98: the rows the _next_batch call of this step
\* added to the batch under assembly
ChunkRows ==
    LET old == IF nb.active THEN nb.batch ELSE [c \in 1..NumComp |-> <<>>]
        new == IF nb'.active THEN nb'.batch ELSE mlast'.ret.val
    IN  [i \in 1..(Len(new[1]) - Len(old[1])) |->
            [c \in 1..NumComp |-> new[c][Len(old[1]) + i]]]

\* the rows handed out are cut into blocks of self._size rows
BlockChunk ==
    /\ block' = IF Len(block) >= size THEN ChunkRows ELSE block \o ChunkRows
    /\ UNCHANGED reshuffled

BlockNextBatchCall(n) == MemNextBatchCall(n) /\ BlockChunk
BlockNextBatchLoop == MemNextBatchLoop /\ BlockChunk

\* -------------------------------------------------------------- BatchSource
\* fn(cell), fn(column): a call of a registered function, kept as the term
Call(fn, x) == [fn |-> fn, arg |-> x]

\* What a callable does is its own business: of those explored, f and g
\* return and bad raises, each time it is called.
Raises(fn) == fn = "bad"

\* the exception fn(x) raises, the exception the input's next() raises
FnError(fn, x) == [by |-> "transform", fn |-> fn, arg |-> <<x>>]
InputError == [by |-> "input", fn |-> "", arg |-> <<>>]
\* an exception on its way out of a call
RaisedVal(e) == [kind |-> "raised", val |-> <<e>>]

\* for fn in fns: x = fn(x): the value left, or the exception of the first
\* call that raises
RECURSIVE ApplyAll(_, _)
ApplyAll(fns, x) ==
    IF fns = <<>> THEN [raised |-> FALSE, val |-> x]
    ELSE IF Raises(Head(fns))
    THEN [raised |-> TRUE, val |-> FnError(Head(fns), x)]
    ELSE ApplyAll(Tail(fns), Call(Head(fns), x))

\* BatchSource._apply_column_mappers
ApplyColumnMappers(cell, column_name) ==
    IF column_name \in DOMAIN cell_fns
    THEN ApplyAll(cell_fns[column_name], cell) ELSE [raised |-> FALSE, val |-> cell]

\* BatchSource._apply_batch_mappers
ApplyBatchMappers(column_name, column) ==
    IF column_name \in DOMAIN column_fns
    THEN ApplyAll(column_fns[column_name], column) ELSE [raised |-> FALSE, val |-> column]

\* tuple(... for ...) over results made in column order: the tuple of their
\* values, returned as a row or a batch (kind), or the first exception, which
\* ends the making of the rest
FirstRaised(res) == CHOOSE j \in DOMAIN res :
                        res[j].raised /\ \A k \in 1..(j - 1) : ~res[k].raised
TupleOf(res, kind) ==
    IF \E j \in DOMAIN res : res[j].raised
    THEN [ret |-> RaisedVal(res[FirstRaised(res)].val),
          thrown |-> <<res[FirstRaised(res)].val>>]
    ELSE [ret |-> [kind |-> kind, val |-> [j \in DOMAIN res |-> res[j].val]],
          thrown |-> <<>>]

\* self._input_source.next() on the input in state m = [columns, start, loop]:
\* what MemorySource.next does and, of an input whose next() can raise, the
\* exception, which leaves the input as it was
InputNext(m) ==
    {[ret |-> r.ret, thrown |-> <<>>,
      m |-> [columns |-> r.columns, start |-> r.start, loop |-> r.loop]] :
        r \in NextResults(m.columns, m.start, m.loop)}
    \cup (IF input_raises
          THEN {[ret |-> RaisedVal(InputError), thrown |-> <<InputError>>, m |-> m]}
          ELSE {})

\* _next_one, once the input's next() has ended with r
MapRow(r) ==
    IF r.ret.kind \in {"raised", "none"}
    THEN [ret |-> r.ret, raw |-> r.ret, thrown |-> r.thrown, m |-> r.m]
    ELSE LET row == TupleOf([i \in 1..Len(Meta) |->
                                ApplyColumnMappers(r.ret.val[i], Meta[i])], "row")
         IN  [ret |-> row.ret, raw |-> r.ret, thrown |-> row.thrown, m |-> r.m]

\* A slip _next_one could make: when the fetch raises it is made again.
NextOneRetry(m) ==
    UNION {IF r.ret.kind = "raised"
           THEN {[MapRow(r2) EXCEPT !.thrown = r.thrown \o @] :
                    r2 \in {q \in InputNext(r.m) : q.ret.kind # "raised"}}
           ELSE {MapRow(r)}
           : r \in InputNext(m)}

\* BatchSource._next_one: the set of [ret, raw, thrown, m] it can end with
\* (raw: what the input returned; thrown: what the input or a transform raised)
NextOne(m) == {MapRow(r) : r \in InputNext(m)}

\* columns = tuple(list() for _ in self._meta)
EmptyColumns == [j \in 1..Len(Meta) |-> <<>>]

\* A slip next could make: each cell goes to the head of its column.
PrependRow(cols, row) == [j \in 1..Len(Meta) |-> <<row[j]>> \o cols[j]]

\* for j, cell in enumerate(row): columns[j].append(cell)
AppendRow(cols, row) == [j \in 1..Len(Meta) |-> Append(cols[j], row[j])]

\* A slip next could make: the marker is not told apart on the first turn.
NeverFirstTurn(i) == FALSE

\* if i == 0, of the turn of the for loop that got the epoch marker
FirstTurn(i) == i = 0

\* A slip next could make: a fetch that raises is taken for the end of the
\* pass, the eof flag set before the exception leaves.
RECURSIVE CollectEndsPassOnRaise(_, _, _, _)
CollectEndsPassOnRaise(m, i, cols, got) ==
    LET finish(m1, e, mk) ==
            LET batch == TupleOf([j \in 1..Len(Meta) |->
                                     ApplyBatchMappers(Meta[j], cols[j])], "batch")
            IN  [ret |-> batch.ret, eof |-> e, m |-> m1,
                 calls |-> IF mk THEN i + 1 ELSE i,
                 fetched |-> got, marker |-> mk, thrown |-> batch.thrown]
    IN  IF i >= batch_size
        THEN {finish(m, eof, FALSE)}
        ELSE UNION {
            IF r.ret.kind = "raised"
            THEN {[ret |-> r.ret, eof |-> TRUE, m |-> r.m, calls |-> i + 1,
                   fetched |-> IF r.raw.kind = "row" THEN Append(got, r.raw.val)
                               ELSE got,
                   marker |-> FALSE, thrown |-> r.thrown]}
            ELSE IF r.ret = None
            THEN IF FirstTurn(i)
                 THEN {[ret |-> None, eof |-> eof, m |-> r.m, calls |-> 1,
                        fetched |-> got, marker |-> TRUE, thrown |-> <<>>]}
                 ELSE {finish(r.m, TRUE, TRUE)}
            ELSE CollectEndsPassOnRaise(r.m, i + 1, AppendRow(cols, r.ret.val),
                                        Append(got, r.raw.val))
            : r \in NextOne(m)}

\* The for loop of BatchSource.next from turn i on, cols and the rows got
\* from the input so far: the set of [ret, eof, m, calls, fetched, marker,
\* thrown] it ends with.
RECURSIVE Collect(_, _, _, _)
Collect(m, i, cols, got) ==
    LET finish(m1, e, mk) ==
            LET batch == TupleOf([j \in 1..Len(Meta) |->
                                     ApplyBatchMappers(Meta[j], cols[j])], "batch")
            IN  [ret |-> batch.ret, eof |-> e, m |-> m1,
                 calls |-> IF mk THEN i + 1 ELSE i,
                 fetched |-> got, marker |-> mk, thrown |-> batch.thrown]
    IN  IF i >= batch_size
        THEN {finish(m, eof, FALSE)}
        ELSE UNION {
            IF r.ret.kind = "raised"
            THEN {[ret |-> r.ret, eof |-> eof, m |-> r.m, calls |-> i + 1,
                   fetched |-> IF r.raw.kind = "row" THEN Append(got, r.raw.val)
                               ELSE got,
                   marker |-> FALSE, thrown |-> r.thrown]}
            ELSE IF r.ret = None
            THEN IF FirstTurn(i)
                 THEN {[ret |-> None, eof |-> eof, m |-> r.m, calls |-> 1,
                        fetched |-> got, marker |-> TRUE, thrown |-> <<>>]}
                 ELSE {finish(r.m, TRUE, TRUE)}
            ELSE Collect(r.m, i + 1, AppendRow(cols, r.ret.val), Append(got, r.raw.val))
            : r \in NextOne(m)}

\* return self._next_one(), of a BatchSource with batch size 0
PassThrough(m) ==
    {[ret |-> r.ret, eof |-> eof, m |-> r.m, calls |-> 1,
      fetched |-> IF r.raw.kind = "row" THEN <<r.raw.val>> ELSE <<>>,
      marker |-> r.raw = None, thrown |-> r.thrown] : r \in NextOne(m)}

\* A slip next could make: the eof flag is not looked at.
BatchNextIgnoresEof(m) ==
    IF batch_size # 0
    THEN Collect(m, 0, EmptyColumns, <<>>)
    ELSE PassThrough(m)

\* A slip next could make: a batch size of 0 is batched like any other.
BatchNextAlwaysBatches(m) ==
    IF eof
    THEN {[ret |-> None, eof |-> FALSE, m |-> m, calls |-> 0,
           fetched |-> <<>>, marker |-> FALSE, thrown |-> <<>>]}
    ELSE Collect(m, 0, EmptyColumns, <<>>)

\* BatchSource.next: the set of [ret, eof, m, calls, fetched, marker, thrown]
\* it can end with
BatchNextResults(m) ==
    IF batch_size # 0
    THEN IF eof
         THEN {[ret |-> None, eof |-> FALSE, m |-> m, calls |-> 0,
                fetched |-> <<>>, marker |-> FALSE, thrown |-> <<>>]}
         ELSE Collect(m, 0, EmptyColumns, <<>>)
    ELSE PassThrough(m)

NoPass == [rows |-> <<>>, batches |-> <<>>]

\* BatchSource.__init__, given a batch size of sizes, over an input whose
\* next() can raise or cannot
BatchInitOf(sizes, raising) ==
    /\ batch_size \in sizes
    /\ input_raises \in raising
    /\ eof = FALSE
    /\ cell_fns = <<>>
    /\ column_fns = <<>>
    /\ blast = NoLast
    /\ pass = NoPass
    /\ done = NoPass
    /\ markers = 0
    /\ registered = <<>>

BatchInit == BatchInitOf(0..MaxBatch, {FALSE})

BatchNext ==
    /\ \E r \in BatchNextResults([columns |-> columns, start |-> start, loop |-> loop]) :
        LET now == [rows |-> pass.rows \o r.fetched,
                    batches |-> IF r.ret.kind = "batch"
                                THEN Append(pass.batches, r.ret.val)
                                ELSE pass.batches]
        IN  /\ r.m.loop <= MaxLoop
            /\ columns' = r.m.columns
            /\ start' = r.m.start
            /\ loop' = r.m.loop
            /\ eof' = r.eof
            /\ blast' = [op |-> "next", eof |-> eof, ret |-> r.ret, calls |-> r.calls,
                         marker |-> r.marker, fetched |-> r.fetched,
                         thrown |-> r.thrown,
                         m |-> [columns |-> columns, start |-> start, loop |-> loop]]
            /\ pass' = IF r.ret = None THEN NoPass ELSE now
            /\ done' = IF r.ret = None THEN now ELSE NoPass
            /\ markers' = IF r.ret = None THEN markers + 1 ELSE markers
    /\ UNCHANGED <<size, nb, mlast, served, batch_size, input_raises, cell_fns,
                   column_fns, registered>>

\* The arguments add_cell_fns and add_column_fns are called with, val being
\* the list the method makes of them: one column name or a list of names;
\* one callable, a list of callables, or something that is neither.
NameArgs ==
    {[kind |-> "name", val |-> <<Meta[1]>>], [kind |-> "list", val |-> Meta]}
FnsArgs ==
    {[kind |-> "callable", val |-> <<"g">>],
     [kind |-> "list", val |-> <<"f", "g">>],
     [kind |-> "other", val |-> <<>>]}

\* The same with a callable that raises.
RaisingFnsArgs ==
    {[kind |-> "callable", val |-> <<"bad">>],
     [kind |-> "list", val |-> <<"g", "bad">>]}

\* callable(fns) or isinstance(fns, (list, tuple)); else ValueError
FnsAccepted(fns) == fns.kind \in {"callable", "list"}

\* self._cell_fns[item] += fns, on a defaultdict(deque)
Extend(reg, item, fns) ==
    [k \in DOMAIN reg \cup {item} |->
        IF k = item
        THEN (IF item \in DOMAIN reg THEN reg[item] ELSE <<>>) \o fns
        ELSE reg[k]]

\* A slip add_cell_fns could make: the new callables go first.
RECURSIVE AddFnsFirst(_, _, _)
AddFnsFirst(reg, names, fns) ==
    IF names = <<>> THEN reg
    ELSE LET item == Head(names)
             old == IF item \in DOMAIN reg THEN reg[item] ELSE <<>>
         IN  AddFnsFirst([k \in DOMAIN reg \cup {item} |->
                             IF k = item THEN fns \o old ELSE reg[k]],
                         Tail(names), fns)

\* for item in column_name: self._cell_fns[item] += fns
RECURSIVE AddFns(_, _, _)
AddFns(reg, names, fns) ==
    IF names = <<>> THEN reg
    ELSE AddFns(Extend(reg, Head(names), fns), Tail(names), fns)

\* BatchSource.add_cell_fns
AddCellFns(column_name, fns) ==
    /\ Len(registered) < MaxRegs
    /\ IF FnsAccepted(fns)
       THEN /\ cell_fns' = AddFns(cell_fns, column_name.val, fns.val)
            /\ registered' = Append(registered,
                    [kind |-> "cell", names |-> column_name.val, fns |-> fns.val])
            /\ blast' = [op |-> "add_cell_fns", raised |-> FALSE]
       ELSE /\ blast' = [op |-> "add_cell_fns", raised |-> TRUE]
            /\ UNCHANGED <<cell_fns, registered>>
    /\ UNCHANGED <<memVars, batch_size, input_raises, eof, column_fns, pass, done,
                   markers>>

\* BatchSource.add_column_fns
AddColumnFns(column_name, fns) ==
    /\ Len(registered) < MaxRegs
    /\ IF FnsAccepted(fns)
       THEN /\ column_fns' = AddFns(column_fns, column_name.val, fns.val)
            /\ registered' = Append(registered,
                    [kind |-> "column", names |-> column_name.val, fns |-> fns.val])
            /\ blast' = [op |-> "add_column_fns", raised |-> FALSE]
       ELSE /\ blast' = [op |-> "add_column_fns", raised |-> TRUE]
            /\ UNCHANGED <<column_fns, registered>>
    /\ UNCHANGED <<memVars, batch_size, input_raises, eof, cell_fns, pass, done,
                   markers>>

\* ----------------------------------------------------- ThreadBufferedSource
\* What the k-th call of the wrapped source's next() does: it returns a row,
\* returns the epoch marker or raises. Each is told apart by the call's number.
Outcomes(k) == {[kind |-> t, id |-> k] : t \in {"row", "none", "exc"}}

\* A slip next could make: what was dequeued is returned whatever it is.
NeverException(x) == FALSE

\* isinstance(row, Exception)
IsException(x) == x.kind = "exc"

\* A slip next could make: the worker handle is not looked at.
ThreadUnchecked == TRUE

\* A slip next could make: a caller that has found no live worker keeps the
\* others from finding the same until it has started its own.
NoLiveThreadNorStarter ==
    /\ thread = 0 \/ thread \notin DOMAIN workers
    /\ \A c \in DOMAIN cpc : cpc[c] \notin {"start", "starting"}

\* self._thread is None or not self._thread.is_alive()
NoLiveThread == thread = 0 \/ thread \notin DOMAIN workers

\* A slip a queue could make: last in, first out.
PutFirst(q, x) == <<x>> \o q

\* queue.Queue.put / get: first in, first out, no capacity limit
Put(q, x) == Append(q, x)
QSize(q) == Len(q)

TbsInit ==
    /\ buffer_size \in 1..MaxBuf
    /\ load_threshold = buffer_size \div 3
    /\ queue = <<>>
    /\ thread = 0
    /\ workers = <<>>
    /\ nthreads = 0
    /\ main_alive = TRUE
    /\ cpc = [c \in {1} |-> "idle"]
    /\ calls = 0
    /\ fetched = <<>>
    /\ out = <<>>

\* isinstance(buffer_size, int): a Python bool is an int, True being 1
IsInt(x) == x.type \in {"int", "bool"}

\* A slip __init__ could make: the sign is not looked at.
AnyInt(x) == IsInt(x)

\* isinstance(buffer_size, int) and buffer_size > 0
Accepted(x) == IsInt(x) /\ x.val > 0

\* ThreadBufferedSource(input_source, buffer_size), called by the thread that
\* is the consumer: until it has returned no field is set
TbsNew ==
    /\ tbs_made = ""
    /\ IF Accepted(tbs_args)
       THEN /\ buffer_size' = tbs_args.val
            /\ main_alive' = TRUE
            /\ queue' = <<>>
            /\ load_threshold' = tbs_args.val \div 3
            /\ thread' = 0
            /\ thread_lock' = 1
            /\ tbs_made' = "ok"
       ELSE /\ tbs_made' = "ValueError: Argument buffer_size should be a positive integer."
            /\ UNCHANGED <<buffer_size, main_alive, queue, load_threshold, thread,
                           thread_lock>>
    /\ UNCHANGED <<workers, nthreads, cpc, calls, fetched, out, mem_args, mem_made,
                   meta, tbs_args>>

\* self._thread = threading.Thread(target=self._load); self._thread.start()
StartThread ==
    /\ nthreads' = nthreads + 1
    /\ thread' = nthreads + 1
    /\ workers' = [t \in DOMAIN workers \cup {nthreads + 1} |->
                     IF t = nthreads + 1 THEN [pc |-> "fetch", i |-> 0]
                     ELSE workers[t]]

\* A slip next could make: the queue size is not compared with the threshold.
TbsNextEnterAnySize(c) ==
    /\ cpc[c] = "idle"
    /\ cpc' = [cpc EXCEPT ![c] = "alive1"]
    /\ UNCHANGED <<buffer_size, load_threshold, queue, thread, workers, nthreads,
                   main_alive, calls, fetched, out>>

\* next(), line 280: self._queue.qsize() <= self._load_threshold
TbsNextEnter(c) ==
    /\ cpc[c] = "idle"
    /\ cpc' = [cpc EXCEPT ![c] = IF QSize(queue) <= load_threshold
                                 THEN "alive1" ELSE "get"]
    /\ UNCHANGED <<buffer_size, load_threshold, queue, thread, workers, nthreads,
                   main_alive, calls, fetched, out>>

\* next(), lines 281 and 288: is there a live worker?
TbsNextAlive(c) ==
    /\ cpc[c] \in {"alive1", "alive2"}
    /\ cpc' = [cpc EXCEPT ![c] = IF NoLiveThread THEN "start" ELSE "get"]
    /\ UNCHANGED <<buffer_size, load_threshold, queue, thread, workers, nthreads,
                   main_alive, calls, fetched, out>>

\* next(), lines 282-283 and 289-290
TbsNextStart(c) ==
    /\ cpc[c] = "start"
    /\ StartThread
    /\ cpc' = [cpc EXCEPT ![c] = "get"]
    /\ UNCHANGED <<buffer_size, load_threshold, queue, main_alive, calls, fetched, out>>

\* next(), lines 281 and 288 run by one of several callers
TbsNextAliveOf(c) ==
    /\ TbsNextAlive(c)
    /\ raced' = (raced \/ (NoLiveThread /\ \E d \in DOMAIN cpc \ {c} : cpc[d] = "start"))
    /\ UNCHANGED <<thread_lock, unstarted>>

\* next(), lines 282 and 289 run by one of several callers:
\* self._thread = threading.Thread(target=self._load)
TbsNextAssign(c) ==
    /\ cpc[c] = "start"
    /\ nthreads < MaxThreads
    /\ nthreads' = nthreads + 1
    /\ thread' = nthreads + 1
    /\ unstarted' = unstarted \cup {nthreads + 1}
    /\ cpc' = [cpc EXCEPT ![c] = "starting"]
    /\ UNCHANGED <<buffer_size, load_threshold, queue, workers, main_alive, calls,
                   fetched, out, thread_lock, raced>>

\* threading.Thread.start on a thread that was started before
RuntimeError == [kind |-> "RuntimeError", id |-> 0]

\* next(), lines 283 and 290 run by one of several callers:
\* self._thread.start(), on whatever self._thread is by now
TbsNextStartThread(c) ==
    /\ cpc[c] = "starting"
    /\ IF thread \in unstarted
       THEN /\ workers' = [t \in DOMAIN workers \cup {thread} |->
                             IF t = thread THEN [pc |-> "fetch", i |-> 0]
                             ELSE workers[t]]
            /\ unstarted' = unstarted \ {thread}
            /\ cpc' = [cpc EXCEPT ![c] = "get"]
            /\ UNCHANGED out
       ELSE /\ out' = Append(out, RuntimeError)
            /\ cpc' = [cpc EXCEPT ![c] = "idle"]
            /\ UNCHANGED <<workers, unstarted>>
    /\ UNCHANGED <<buffer_size, load_threshold, queue, thread, nthreads, main_alive,
                   calls, fetched, thread_lock, raced>>

\* next(), line 286 with an item in the queue, then lines 293-295
TbsNextGet(c) ==
    /\ cpc[c] = "get"
    /\ queue # <<>>
    /\ queue' = Tail(queue)
    /\ out' = Append(out, [kind |-> IF IsException(Head(queue)) THEN "raised"
                                    ELSE Head(queue).kind,
                           id |-> Head(queue).id])
    /\ cpc' = [cpc EXCEPT ![c] = "idle"]
    /\ UNCHANGED <<buffer_size, load_threshold, thread, workers, nthreads,
                   main_alive, calls, fetched>>

\* A slip next could make: after a timeout the get is tried again and the
\* worker is not looked at.
TbsNextTimeoutRetry(c) ==
    /\ cpc[c] = "get"
    /\ queue = <<>>
    /\ UNCHANGED tbsVars

\* next(), lines 286-287: the get times out on an empty queue
TbsNextTimeout(c) ==
    /\ cpc[c] = "get"
    /\ queue = <<>>
    /\ cpc' = [cpc EXCEPT ![c] = "alive2"]
    /\ UNCHANGED <<buffer_size, load_threshold, queue, thread, workers, nthreads,
                   main_alive, calls, fetched, out>>

\* _load, lines 301-304: the next turn of the for loop calls the wrapped source
LoadFetch(t) ==
    /\ workers[t].pc = "fetch"
    /\ calls < MaxCalls
    /\ \E r \in Outcomes(calls + 1) :
        /\ calls' = calls + 1
        /\ fetched' = Append(fetched, r)
        /\ workers' = [workers EXCEPT ![t] =
                         [pc |-> IF r.kind = "exc" THEN "except" ELSE "put",
                          i |-> @.i, row |-> r]]
    /\ UNCHANGED <<buffer_size, load_threshold, queue, thread, nthreads,
                   main_alive, cpc, out>>

\* _load, lines 301-304, the calls of the wrapped source not told apart nor
\* counted, so that there is no last one: a call returns or raises, and what
\* it returns, which _load does not look at, is written as a row
LoadFetchOn(t) ==
    /\ workers[t].pc = "fetch"
    /\ \E r \in {o \in Outcomes(0) : o.kind # "none"} :
        workers' = [workers EXCEPT ![t] =
                       [pc |-> IF r.kind = "exc" THEN "except" ELSE "put",
                        i |-> @.i, row |-> r]]
    /\ UNCHANGED <<buffer_size, load_threshold, queue, thread, nthreads,
                   main_alive, cpc, calls, fetched, out>>

\* A slip _load could make: no break after the exception is put.
AfterPutNoBreak(pc) == "check"

\* _load, lines 305-307: break after the put of the except clause
AfterPut(pc) == IF pc = "except" THEN "end" ELSE "check"

\* _load, lines 305-307: the exception is put and the loop left, or the row is put
LoadPut(t) ==
    /\ workers[t].pc \in {"except", "put"}
    /\ queue' = Put(queue, workers[t].row)
    /\ workers' = [workers EXCEPT ![t] =
                     [pc |-> AfterPut(@.pc), i |-> @.i]]
    /\ UNCHANGED <<buffer_size, load_threshold, thread, nthreads, main_alive,
                   cpc, calls, fetched, out>>

\* A slip _load could make: the loop has no last turn.
LoadCheckUnbounded(t) ==
    /\ workers[t].pc = "check"
    /\ workers' = [workers EXCEPT ![t] =
                     [pc |-> IF ~main_alive THEN "end" ELSE "fetch",
                      i |-> @.i + 1]]
    /\ UNCHANGED <<buffer_size, load_threshold, queue, thread, nthreads,
                   main_alive, cpc, calls, fetched, out>>

\* A slip _load could make: the thread that built the source is not looked at.
LoadCheckNoSentinel(t) ==
    /\ workers[t].pc = "check"
    /\ workers' = [workers EXCEPT ![t] =
                     [pc |-> IF @.i + 1 >= buffer_size THEN "end" ELSE "fetch",
                      i |-> @.i + 1]]
    /\ UNCHANGED <<buffer_size, load_threshold, queue, thread, nthreads,
                   main_alive, cpc, calls, fetched, out>>

\* _load, lines 308-309, and the loop's next turn if there is one
LoadCheck(t) ==
    /\ workers[t].pc = "check"
    /\ workers' = [workers EXCEPT ![t] =
                     [pc |-> IF ~main_alive \/ @.i + 1 >= buffer_size
                             THEN "end" ELSE "fetch",
                      i |-> @.i + 1]]
    /\ UNCHANGED <<buffer_size, load_threshold, queue, thread, nthreads,
                   main_alive, cpc, calls, fetched, out>>

\* _load returns: the thread is no longer alive
LoadEnd(t) ==
    /\ workers[t].pc = "end"
    /\ workers' = [u \in DOMAIN workers \ {t} |-> workers[u]]
    /\ UNCHANGED <<buffer_size, load_threshold, queue, thread, nthreads,
                   main_alive, cpc, calls, fetched, out>>

\* the thread that built the source ends
MainExit ==
    /\ main_alive
    /\ main_alive' = FALSE
    /\ UNCHANGED <<buffer_size, load_threshold, queue, thread, workers, nthreads,
                   cpc, calls, fetched, out>>

\* ---------------------------------------------------------------- DataSource
\* A slip __next__ could make: the sample is not looked at.
NeverNone(sample) == FALSE

\* if sample is None
IsNone(sample) == sample = None

\* DataSource.__next__, on the MemorySource
IterNext ==
    /\ MemNext
    /\ LET sample == mlast'.ret
       IN  IF IsNone(sample)
           THEN /\ it_last' = [op |-> "__next__", sample |-> sample, stop |-> TRUE]
                /\ it_stops' = it_stops + 1
                /\ it_prev' = it_rows
                /\ it_rows' = <<>>
           ELSE /\ it_last' = [op |-> "__next__", sample |-> sample, stop |-> FALSE,
                               ret |-> sample]
                /\ it_rows' = Append(it_rows, sample)
                /\ it_prev' = <<>>
                /\ UNCHANGED it_stops

\* ---------------------------------------------------------------- CSVSource
\* A slip __init__ could make: the lengths of the columns are not compared.
MemorySourceNewUnchecked(cols, column_names) ==
    IF Len(cols) = 0
    THEN [raised |-> "ValueError: At least 1 data object should be given."]
    ELSE [raised |-> "", meta |-> column_names, columns |-> cols,
          size |-> Len(cols[1]), start |-> 0, loop |-> 0]

\* A slip __init__ could make: the rows are not kept in the order given.
MemorySourceNewReordered(cols, column_names) ==
    IF Len(cols) = 0
    THEN [raised |-> "ValueError: At least 1 data object should be given."]
    ELSE IF \E c \in DOMAIN cols : Len(cols[c]) # Len(cols[1])
    THEN [raised |-> "ValueError: All data components must have the same size."]
    ELSE [raised |-> "", meta |-> column_names,
          columns |-> [c \in DOMAIN cols |->
                          [i \in 1..Len(cols[c]) |-> cols[c][Len(cols[c]) + 1 - i]]],
          size |-> Len(cols[1]), start |-> 0, loop |-> 0]

\* MemorySource.__init__(columns, column_names): the error it raises, or the
\* fields it leaves. np.array(column) keeps the cells of a flat column of
\* cells of one type, which all columns explored are.
MemorySourceNew(cols, column_names) ==
    IF Len(cols) = 0
    THEN [raised |-> "ValueError: At least 1 data object should be given."]
    ELSE IF \E c \in DOMAIN cols : Len(cols[c]) # Len(cols[1])
    THEN [raised |-> "ValueError: All data components must have the same size."]
    ELSE [raised |-> "", meta |-> column_names, columns |-> cols,
          size |-> Len(cols[1]), start |-> 0, loop |-> 0]

\* MemorySource(columns, column_names)
MemNew ==
    /\ mem_made = ""
    /\ LET new == MemorySourceNew(mem_args.columns, mem_args.column_names)
       IN  IF new.raised # ""
           THEN /\ mem_made' = new.raised
                /\ UNCHANGED <<memVars, meta>>
           ELSE /\ mem_made' = "ok"
                /\ meta' = new.meta
                /\ columns' = new.columns
                /\ size' = new.size
                /\ start' = new.start
                /\ loop' = new.loop
                /\ UNCHANGED <<nb, mlast, served>>
    /\ UNCHANGED <<mem_args, tbs_args, tbs_made>>

\* The records a csv.DictReader makes of a stream whose header row is fields.
Records(fields) ==
    {[f \in fields |-> IF f = "x" THEN c1 ELSE c2] : c1 \in Cells1, c2 \in Cells2}

\* A slip next could make: doc.get(column_name, default), which raises nothing.
RECURSIVE AppendCellsDefault(_, _, _)
AppendCellsDefault(cols, doc, i) ==
    IF i > Len(Meta) THEN [columns |-> cols, raised |-> FALSE]
    ELSE AppendCellsDefault(
             [cols EXCEPT ![i] = Append(@, IF Meta[i] \in DOMAIN doc THEN doc[Meta[i]]
                                           ELSE IF i = 1 THEN 0 ELSE "")],
             doc, i + 1)

\* for i, column_name in enumerate(self._meta):
\*     cell = doc[column_name]; self._columns[i].append(cell)
\* from name i on: the buffers it leaves, and whether doc[column_name] raised
RECURSIVE AppendCells(_, _, _)
AppendCells(cols, doc, i) ==
    IF i > Len(Meta) THEN [columns |-> cols, raised |-> FALSE]
    ELSE IF Meta[i] \notin DOMAIN doc THEN [columns |-> cols, raised |-> TRUE]
    ELSE AppendCells([cols EXCEPT ![i] = Append(@, doc[Meta[i]])], doc, i + 1)

\* A slip next could make: the head of each buffer is returned.
FirstOf(cols) == [c \in DOMAIN cols |-> cols[c][1]]

\* tuple(column[-1] for column in self._columns)
LastOf(cols) == [c \in DOMAIN cols |-> cols[c][Len(cols[c])]]

\* CSVSource.__init__ over a stream of n records with header row fields
CsvInitOf(fields, n) ==
    /\ csv_fields = fields
    /\ csv_records \in [1..n -> Records(fields)]
    /\ csv_pos = 0
    /\ csv_iter = TRUE
    /\ csv_columns = [c \in DOMAIN Meta |-> <<>>]
    /\ csv_memory = FALSE
    /\ csv_reads = 0
    /\ csv_last = NoLast

CsvPre == [op |-> "next", pos |-> csv_pos, columns |-> csv_columns,
           memory |-> csv_memory, reads |-> csv_reads]
CsvReturned(pre, from, ret) ==
    [op |-> pre.op, pos |-> pre.pos, columns |-> pre.columns, memory |-> pre.memory,
     reads |-> pre.reads, from |-> from, raised |-> "", ret |-> ret]
CsvRaised(pre, from, error) ==
    [op |-> pre.op, pos |-> pre.pos, columns |-> pre.columns, memory |-> pre.memory,
     reads |-> pre.reads, from |-> from, raised |-> error, ret |-> None]

\* CSVSource.next while self._memory_source is None, the stream exhausted
CsvNextExhausted ==
    /\ ~csv_memory
    /\ csv_pos >= Len(csv_records)
    /\ csv_reads < MaxReads
    /\ csv_reads' = csv_reads + 1
    /\ LET new == MemorySourceNew(csv_columns, Meta)
       IN  IF new.raised # ""
           THEN /\ csv_last' = CsvRaised(CsvPre, "stream", new.raised)
                /\ UNCHANGED <<memVars, csv_iter, csv_columns, csv_memory>>
           ELSE /\ columns' = new.columns
                /\ size' = new.size
                /\ start' = new.start
                /\ loop' = new.loop
                /\ csv_memory' = TRUE
                /\ csv_iter' = FALSE
                /\ csv_columns' = <<>>
                /\ csv_last' = CsvReturned(CsvPre, "stream", None)
                /\ UNCHANGED <<nb, mlast, served>>
    /\ UNCHANGED <<csv_fields, csv_records, csv_pos>>

\* CSVSource.next while self._memory_source is None, a record left
CsvNextRecord ==
    /\ ~csv_memory
    /\ csv_pos < Len(csv_records)
    /\ csv_reads' = csv_reads + 1
    /\ csv_pos' = csv_pos + 1
    /\ LET got == AppendCells(csv_columns, csv_records[csv_pos + 1], 1)
       IN  /\ csv_columns' = got.columns
           /\ csv_last' = IF got.raised
                          THEN CsvRaised(CsvPre, "stream", "KeyError")
                          ELSE CsvReturned(CsvPre, "stream", RowVal(LastOf(got.columns)))
    /\ UNCHANGED <<memVars, csv_fields, csv_records, csv_iter, csv_memory>>

\* CSVSource.next once self._memory_source is set
CsvNextMemory ==
    /\ csv_memory
    /\ MemNext
    /\ csv_last' = CsvReturned(CsvPre, "memory", mlast'.ret)
    /\ UNCHANGED <<csv_fields, csv_records, csv_pos, csv_iter, csv_columns,
                   csv_memory, csv_reads>>

\* --------------------------------------------------- photinia/core/widgets.py
\* A string is the sequence of its characters; a value is kept with its type.
Str(s) == [type |-> "str", val |-> s]
PyNone == [type |-> "NoneType", val |-> <<>>]

\* The names Trainable(name, build) is called with: a, b, None, the empty
\* string, a name that begins with a space, an integer.
WidgetNames ==
    {Str(<<"a">>), Str(<<"b">>), PyNone, Str(<<>>), Str(<<" ", "a">>),
     [type |-> "int", val |-> <<>>]}

\* tf.get_variable_scope().name at the time of a build() call: the root
\* scope, the scope m, and a scope name that ends with a slash
Scopes == {<<>>, <<"m">>, <<"m", "/">>}

\* name.strip()
RECURSIVE LStrip(_)
LStrip(s) == IF s # <<>> /\ Head(s) = " " THEN LStrip(Tail(s)) ELSE s
RECURSIVE RStrip(_)
RStrip(s) == IF s # <<>> /\ s[Len(s)] = " " THEN RStrip(SubSeq(s, 1, Len(s) - 1)) ELSE s
Strip(s) == RStrip(LStrip(s))

\* Trainable.__init__, line 85-89: the names that raise no ValueError
NameAccepted(name) ==
    \/ name = PyNone
    \/ /\ name.type = "str"
       /\ ~(Len(Strip(name.val)) # Len(name.val) \/ name.val = <<>>)

\* '%s' % x
Format(x) == IF x = PyNone THEN <<"N", "o", "n", "e">> ELSE x.val

\* build(), line 122-128: self._full_name, or the TypeError of str + None
FullName(scope, name) ==
    IF scope = <<>>
    THEN [raised |-> "", val |-> name]
    ELSE IF scope[Len(scope)] = "/"
    THEN IF name = PyNone
         THEN [raised |-> "TypeError", val |-> PyNone]
         ELSE [raised |-> "", val |-> Str(scope \o name.val)]
    ELSE [raised |-> "", val |-> Str(scope \o <<"/">> \o Format(name))]

\* Trainable.__init__, line 90-94
NewTrainable(name) ==
    [name |-> name, scope |-> <<>>, full_name |-> PyNone, prefix |-> PyNone,
     built |-> FALSE]

\* What _build and _setup do is the subclass's business: each call returns or
\* raises (Trainable._build and Widget._setup themselves raise
\* NotImplementedError). tf.variable_scope(None) raises or lets the block run.
Returns == ""
\* raise ValueError('Duplicated trainable name %s.' % self._full_name)
Duplicated == "ValueError: Duplicated trainable name"
SubclassOutcomes == {Returns, "Exception"}

\* A slip build could make: no `if self._built: return self`.
BuildResultsAlways(obj, id, scope) ==
    LET full == FullName(scope, obj.name)
        scoped == [obj EXCEPT !.scope = scope]
        named == [scoped EXCEPT !.full_name = full.val]
    IN  IF full.raised # Returns
        THEN {[obj |-> scoped, INSTANCES |-> INSTANCES, ran |-> FALSE,
               raised |-> full.raised]}
        ELSE IF full.val = PyNone
        THEN {[obj |-> named, INSTANCES |-> INSTANCES, ran |-> FALSE,
               raised |-> "TypeError"]}
        ELSE LET prefixed == [named EXCEPT !.prefix = Str(full.val.val \o <<"/">>)]
                 marked == [prefixed EXCEPT !.built = TRUE]
             IN  (IF obj.name = PyNone
                  THEN {[obj |-> prefixed, INSTANCES |-> INSTANCES, ran |-> FALSE,
                         raised |-> "ValueError: variable_scope"]}
                  ELSE {})
                 \cup {[obj |-> prefixed, INSTANCES |-> INSTANCES, ran |-> TRUE,
                        raised |-> "Exception"]}
                 \cup {IF full.val.val \in DOMAIN INSTANCES
                       THEN [obj |-> marked, INSTANCES |-> INSTANCES, ran |-> TRUE,
                             raised |-> Duplicated]
                       ELSE [obj |-> marked, INSTANCES |-> INSTANCES @@ (full.val.val :> id),
                             ran |-> TRUE, raised |-> Returns]}

\* Trainable.build on the object obj, the id-th made, under scope: the set of
\* [obj, INSTANCES, ran, raised] it can end with (ran: _build was called)
BuildResults(obj, id, scope) ==
    IF obj.built
    THEN {[obj |-> obj, INSTANCES |-> INSTANCES, ran |-> FALSE, raised |-> Returns]}
    ELSE LET full == FullName(scope, obj.name)
             scoped == [obj EXCEPT !.scope = scope]
             named == [scoped EXCEPT !.full_name = full.val]
         IN  IF full.raised # Returns
             THEN {[obj |-> scoped, INSTANCES |-> INSTANCES, ran |-> FALSE,
                    raised |-> full.raised]}
             ELSE IF full.val = PyNone
             THEN \* self._full_name + '/' with self._full_name None
                  {[obj |-> named, INSTANCES |-> INSTANCES, ran |-> FALSE,
                    raised |-> "TypeError"]}
             ELSE LET prefixed == [named EXCEPT !.prefix = Str(full.val.val \o <<"/">>)]
                      marked == [prefixed EXCEPT !.built = TRUE]
                  IN  (IF obj.name = PyNone
                       THEN {[obj |-> prefixed, INSTANCES |-> INSTANCES, ran |-> FALSE,
                              raised |-> "ValueError: variable_scope"]}
                       ELSE {})
                      \cup {[obj |-> prefixed, INSTANCES |-> INSTANCES, ran |-> TRUE,
                             raised |-> "Exception"]}
                      \cup {IF full.val.val \in DOMAIN INSTANCES
                            THEN [obj |-> marked, INSTANCES |-> INSTANCES, ran |-> TRUE,
                                  raised |-> Duplicated]
                            ELSE [obj |-> marked,
                                  INSTANCES |-> INSTANCES @@ (full.val.val :> id),
                                  ran |-> TRUE, raised |-> Returns]}

\* Trainable(name, build), build() being called under scope. A constructor
\* that raises hands its caller no object.
TrainableNew(name, build, scope) ==
    /\ Len(trainables) < MaxTrainables
    /\ IF ~NameAccepted(name)
       THEN /\ wlast' = [op |-> "new", id |-> 0, ran |-> FALSE, raised |-> "ValueError"]
            /\ UNCHANGED <<trainables, INSTANCES, build_called>>
       ELSE IF ~build
       THEN /\ trainables' = Append(trainables, NewTrainable(name))
            /\ build_called' = Append(build_called, FALSE)
            /\ wlast' = [op |-> "new", id |-> Len(trainables) + 1, ran |-> FALSE,
                         raised |-> Returns]
            /\ UNCHANGED INSTANCES
       ELSE \E r \in BuildResults(NewTrainable(name), Len(trainables) + 1, scope) :
                IF r.raised # Returns
                THEN /\ wlast' = [op |-> "new", id |-> 0, ran |-> r.ran,
                                  raised |-> r.raised]
                     /\ UNCHANGED <<trainables, INSTANCES, build_called>>
                ELSE /\ trainables' = Append(trainables, r.obj)
                     /\ INSTANCES' = r.INSTANCES
                     /\ build_called' = Append(build_called, TRUE)
                     /\ wlast' = [op |-> "new", id |-> Len(trainables) + 1,
                                  ran |-> r.ran, raised |-> Returns]

\* build() on the t-th object made
TrainableBuild(t, scope) ==
    /\ \E r \in BuildResults(trainables[t], t, scope) :
        /\ trainables' = [trainables EXCEPT ![t] = r.obj]
        /\ INSTANCES' = r.INSTANCES
        /\ build_called' = [build_called EXCEPT ![t] = @ \/ r.ran]
        /\ wlast' = [op |-> "build", id |-> t, ran |-> r.ran, raised |-> r.raised]

\* A slip setup could make: no `if not self._built: raise`.
SetupResultsUnchecked(obj) ==
    {[ran |-> TRUE, raised |-> e,
      scope |-> IF obj.name = PyNone THEN PyNone ELSE obj.prefix] :
        e \in SubclassOutcomes}

\* Widget.setup: the set of [ran, raised, scope] it can end with (ran: _setup
\* was called; scope: the variable scope it was called in, None for none)
SetupResults(obj) ==
    IF ~obj.built
    THEN {[ran |-> FALSE, raised |-> "RuntimeError", scope |-> PyNone]}
    ELSE {[ran |-> TRUE, raised |-> e,
           scope |-> IF obj.name = PyNone THEN PyNone ELSE obj.prefix] :
            e \in SubclassOutcomes}

\* setup() on the t-th object made
WidgetSetup(t) ==
    /\ \E r \in SetupResults(trainables[t]) :
        wlast' = [op |-> "setup", id |-> t, ran |-> r.ran, raised |-> r.raised]
    /\ UNCHANGED <<trainables, INSTANCES, build_called>>

\* ------------------------------------------------------------ specifications
NoCsv ==
    /\ csv_fields = {}
    /\ csv_records = <<>>
    /\ csv_pos = 0
    /\ csv_iter = FALSE
    /\ csv_columns = <<>>
    /\ csv_memory = FALSE
    /\ csv_reads = 0
    /\ csv_last = NoLast

NoIter ==
    /\ it_rows = <<>>
    /\ it_prev = <<>>
    /\ it_stops = 0
    /\ it_last = NoLast

\* the sources in use were built from arguments their constructors accept
NoNew ==
    /\ mem_args = <<>>
    /\ mem_made = "ok"
    /\ meta = Meta
    /\ tbs_args = <<>>
    /\ tbs_made = "ok"

\* threading.Semaphore(1); every Thread object made has been started
NoRace ==
    /\ thread_lock = 1
    /\ unstarted = {}
    /\ raced = FALSE

\* no call of next_batch has been made; no Trainable has been made
NoEpoch ==
    /\ reshuffled = FALSE
    /\ block = <<>>

NoWidget ==
    /\ trainables = <<>>
    /\ INSTANCES = <<>>
    /\ build_called = <<>>
    /\ wlast = NoLast

NoRest == NoEpoch /\ NoWidget

NoExtra == NoCsv /\ NoIter /\ NoNew /\ NoRace /\ NoRest

NoBatch ==
    /\ batch_size = 0
    /\ input_raises = FALSE
    /\ eof = FALSE
    /\ cell_fns = <<>>
    /\ column_fns = <<>>
    /\ blast = NoLast
    /\ pass = NoPass
    /\ done = NoPass
    /\ markers = 0
    /\ registered = <<>>

NoMem ==
    /\ size = 0
    /\ columns = <<<<>>, <<>>>>
    /\ start = 0
    /\ loop = 0
    /\ nb = NoCall
    /\ mlast = NoLast
    /\ served = 0

NoTbs ==
    /\ buffer_size = 1
    /\ load_threshold = 0
    /\ queue = <<>>
    /\ thread = 0
    /\ workers = <<>>
    /\ nthreads = 0
    /\ main_alive = TRUE
    /\ cpc = <<>>
    /\ calls = 0
    /\ fetched = <<>>
    /\ out = <<>>

\* A MemorySource under any sequence of its calls.
MemSpecInit == (\E n \in 0..MaxSize : MemInitOf(n)) /\ NoBatch /\ NoTbs /\ NoExtra
MemStep ==
    \/ MemNext /\ UNCHANGED <<batchVars, tbsVars, extraVars>>
    \/ MemNextBatch /\ UNCHANGED <<batchVars, tbsVars, extraVars>>
    \/ MemNextBatchLoop /\ UNCHANGED <<batchVars, tbsVars, extraVars>>
    \/ MemShuffle /\ UNCHANGED <<batchVars, tbsVars, extraVars>>
    \/ MemAll /\ UNCHANGED <<batchVars, tbsVars, extraVars>>
MemSpec == MemSpecInit /\ [][MemStep]_vars

\* A MemorySource driven by next() alone.
NextOnlyStep == MemNext /\ UNCHANGED <<batchVars, tbsVars, extraVars>>
NextOnlyInit == (\E n \in 0..MaxRows : MemInitOf(n)) /\ NoBatch /\ NoTbs /\ NoExtra
NextOnlySpec == NextOnlyInit /\ [][NextOnlyStep]_vars

\* A BatchSource over a MemorySource that nothing else calls.
BatchSpecInit == (\E n \in 0..MaxRows : MemInitOf(n)) /\ BatchInit /\ NoTbs /\ NoExtra
BatchStep == BatchNext /\ UNCHANGED <<tbsVars, extraVars>>
BatchSpec == BatchSpecInit /\ [][BatchStep]_vars

\* A BatchSource that transforms are registered on between its next() calls,
\* at any point of the first pass over its input.
\* Its input holds the rows (1, a), (2, b), (1, a), ...: a transform is not
\* looked into, so that what the cells are makes no difference to it.
FnsSpecInit ==
    /\ \E n \in 1..MaxSize : MemInitOf(n)
    /\ \A i \in 1..size : columns[1][i] = 2 - (i % 2) /\ columns[2][i] = <<"b", "a">>[(i % 2) + 1]
    /\ BatchInit /\ NoTbs /\ NoExtra
FnsStep ==
    \/ BatchNext /\ UNCHANGED <<tbsVars, extraVars>>
    \/ /\ loop = 0
       /\ \E c \in NameArgs, f \in FnsArgs : AddCellFns(c, f)
       /\ UNCHANGED <<tbsVars, extraVars>>
    \/ /\ loop = 0
       /\ \E c \in NameArgs, f \in FnsArgs : AddColumnFns(c, f)
       /\ UNCHANGED <<tbsVars, extraVars>>
FnsSpec == FnsSpecInit /\ [][FnsStep]_vars

\* A BatchSource whose input's next() can raise and whose transforms can.
RaiseSpecInit ==
    /\ \E n \in 1..MaxSize : MemInitOf(n)
    /\ \A i \in 1..size : columns[1][i] = 2 - (i % 2) /\ columns[2][i] = <<"b", "a">>[(i % 2) + 1]
    /\ BatchInitOf(0..MaxBatch, {TRUE}) /\ NoTbs /\ NoExtra
RaiseStep ==
    \/ BatchNext /\ UNCHANGED <<tbsVars, extraVars>>
    \/ /\ loop = 0
       /\ \E c \in NameArgs, f \in RaisingFnsArgs : AddCellFns(c, f)
       /\ UNCHANGED <<tbsVars, extraVars>>
    \/ /\ loop = 0
       /\ \E c \in NameArgs, f \in RaisingFnsArgs : AddColumnFns(c, f)
       /\ UNCHANGED <<tbsVars, extraVars>>
RaiseSpec == RaiseSpecInit /\ [][RaiseStep]_vars

\* A BatchSource built with a negative batch size, which __init__ stores as
\* it does any other.
NegSpecInit ==
    /\ \E n \in 0..MaxRows : MemInitOf(n)
    /\ BatchInitOf((-MaxBatch)..(-1), {FALSE}) /\ NoTbs /\ NoExtra
NegStep == Len(pass.batches) < MaxEmpty /\ BatchNext /\ UNCHANGED <<tbsVars, extraVars>>
NegSpec == NegSpecInit /\ [][NegStep]_vars

\* A MemorySource iterated over again and again through __next__.
IterSpecInit ==
    /\ \E n \in 0..MaxRows : MemInitOf(n)
    /\ NoBatch /\ NoTbs /\ NoCsv /\ NoIter /\ NoNew /\ NoRace /\ NoRest
IterStep ==
    IterNext /\ UNCHANGED <<batchVars, tbsVars, csvVars, newVars, raceVars, restVars>>
IterSpec == IterSpecInit /\ [][IterStep]_vars

\* MemorySource(columns, column_names) called with 0..MaxCols columns of any
\* lengths and with any number of names of Meta, then next() on what it built.
MemArgs ==
    {[columns |-> [c \in 1..k |-> SubSeq(IF c = 1 THEN c1 ELSE c2, 1, lens[c])],
      column_names |-> SubSeq(Meta, 1, j)] :
        <<k, j>> \in (0..MaxCols) \X (0..Len(Meta)),
        lens \in [1..MaxCols -> 0..MaxSize],
        c1 \in [1..MaxSize -> Cells1], c2 \in [1..MaxSize -> Cells2]}
NewMemSpecInit ==
    /\ mem_args \in MemArgs
    /\ mem_made = ""
    /\ meta = <<>>
    /\ tbs_args = <<>>
    /\ tbs_made = "ok"
    /\ NoMem /\ NoBatch /\ NoTbs /\ NoCsv /\ NoIter /\ NoRace /\ NoRest
NewMemStep ==
    \/ MemNew /\ UNCHANGED <<batchVars, tbsVars, csvVars, iterVars, raceVars, restVars>>
    \/ /\ mem_made = "ok"
       /\ MemNext
       /\ UNCHANGED <<batchVars, tbsVars, csvVars, iterVars, newVars, raceVars, restVars>>
NewMemSpec == NewMemSpecInit /\ [][NewMemStep]_vars

\* MemorySource([1, 2, 3], ["a", "b", "c"]), or any of the calls above, then
\* next() on what it built.
ThreeRows == [columns |-> <<<<1, 2, 3>>, <<"a", "b", "c">>>>, column_names |-> Meta]
FirstPassSpecInit ==
    /\ mem_args \in MemArgs \cup {ThreeRows}
    /\ mem_made = ""
    /\ meta = <<>>
    /\ tbs_args = <<>>
    /\ tbs_made = "ok"
    /\ NoMem /\ NoBatch /\ NoTbs /\ NoCsv /\ NoIter /\ NoRace /\ NoRest
FirstPassSpec == FirstPassSpecInit /\ [][NewMemStep]_vars

\* A CSVSource asked for the columns of Meta, over any stream explored.
Headers == {{"x", "y"}, {"x"}, {"y"}}
CsvSpecInit ==
    /\ \E fields \in Headers, n \in 0..MaxRows : CsvInitOf(fields, n)
    /\ NoMem /\ NoBatch /\ NoTbs /\ NoIter /\ NoNew /\ NoRace /\ NoRest
CsvStep ==
    \/ CsvNextRecord /\ UNCHANGED <<batchVars, tbsVars, iterVars, newVars, raceVars, restVars>>
    \/ CsvNextExhausted
        /\ UNCHANGED <<batchVars, tbsVars, iterVars, newVars, raceVars, restVars>>
    \/ CsvNextMemory /\ UNCHANGED <<batchVars, tbsVars, iterVars, newVars, raceVars, restVars>>
CsvSpec == CsvSpecInit /\ [][CsvStep]_vars

\* A MemorySource driven by next() and next_batch(n) in any order.
MixFrame == UNCHANGED <<batchVars, tbsVars, csvVars, iterVars, newVars, raceVars, widgetVars>>
MixSpecInit == (\E n \in 0..MaxSize : MemInitOf(n)) /\ NoBatch /\ NoTbs /\ NoExtra
MixStep ==
    \/ MixNext /\ MixFrame
    \/ (\E n \in 0..MaxReq : MixNextBatchAll(n)) /\ MixFrame
    \/ (\E n \in 0..MaxReq : MixNextBatchCall(n)) /\ MixFrame
    \/ MixNextBatchLoop /\ MixFrame
MixSpec == MixSpecInit /\ [][MixStep]_vars

\* A MemorySource of one row or more on which only next_batch(n), n > 0, is
\* called. mem_args keeps the columns it was built from.
BlockSpecInit ==
    /\ \E n \in 1..MaxSize : MemInitOf(n)
    /\ mem_args = [columns |-> columns, column_names |-> Meta]
    /\ mem_made = "ok"
    /\ meta = Meta
    /\ tbs_args = <<>>
    /\ tbs_made = "ok"
    /\ NoBatch /\ NoTbs /\ NoCsv /\ NoIter /\ NoRace /\ NoRest
BlockStep ==
    \/ (\E n \in 1..MaxReq : BlockNextBatchCall(n)) /\ MixFrame
    \/ BlockNextBatchLoop /\ MixFrame
BlockSpec == BlockSpecInit /\ [][BlockStep]_vars

\* A MemorySource on which only next_batch(n), n > 0, is called, the while loop
\* of a call going on whenever it can. The loop counter has no bound in the
\* code, which reads it only to tell 0 from any other value (line 105): it is
\* followed up to MaxLoop and then from 1 again.
Followed(lp) == IF lp > MaxLoop THEN 1 ELSE lp
TermFrame == UNCHANGED <<batchVars, tbsVars, extraVars>>
TermNextBatchCall(n) ==
    /\ nb = NoCall
    /\ ~(n <= 0)
    /\ \E r \in NextBatchChunk(n) :
        /\ columns' = r.columns
        /\ start' = r.start
        /\ loop' = Followed(r.loop)
        /\ served' = IF r.loop = loop THEN served ELSE 0
        /\ IF NeedsMore(Len(r.batch[1]), n)
           THEN /\ nb' = [active |-> TRUE, pre |-> Pre("next_batch", n),
                          batch |-> r.batch]
                /\ UNCHANGED mlast
           ELSE /\ nb' = NoCall
                /\ mlast' = Returned(Pre("next_batch", n), BatchVal(r.batch))
    /\ UNCHANGED size
TermNextBatchLoop ==
    /\ nb # NoCall
    /\ \E r \in NextBatchChunk(nb.pre.n - Len(nb.batch[1])) :
        LET batch == Concat(nb.batch, r.batch) IN
        /\ columns' = r.columns
        /\ start' = r.start
        /\ loop' = Followed(r.loop)
        /\ served' = IF r.loop = loop THEN served ELSE 0
        /\ IF NeedsMore(Len(batch[1]), nb.pre.n)
           THEN /\ nb' = [nb EXCEPT !.batch = batch]
                /\ UNCHANGED mlast
           ELSE /\ nb' = NoCall
                /\ mlast' = Returned(nb.pre, BatchVal(batch))
    /\ UNCHANGED size
TermCall == (\E n \in 1..MaxReq : TermNextBatchCall(n)) /\ TermFrame
TermLoop == TermNextBatchLoop /\ TermFrame
TermNext == TermCall \/ TermLoop
TermSpec == MemSpecInit /\ [][TermNext]_vars /\ WF_vars(TermLoop)

\* A ThreadBufferedSource with one consumer thread.
Init == NoMem /\ NoBatch /\ TbsInit /\ NoExtra
Next ==
    \/ \E c \in DOMAIN cpc : TbsNextEnter(c) /\ UNCHANGED <<memVars, batchVars, extraVars>>
    \/ \E c \in DOMAIN cpc : TbsNextAlive(c) /\ UNCHANGED <<memVars, batchVars, extraVars>>
    \/ \E c \in DOMAIN cpc : TbsNextStart(c) /\ UNCHANGED <<memVars, batchVars, extraVars>>
    \/ \E c \in DOMAIN cpc : TbsNextGet(c) /\ UNCHANGED <<memVars, batchVars, extraVars>>
    \/ \E c \in DOMAIN cpc : TbsNextTimeout(c) /\ UNCHANGED <<memVars, batchVars, extraVars>>
    \/ \E t \in DOMAIN workers : LoadFetch(t) /\ UNCHANGED <<memVars, batchVars, extraVars>>
    \/ \E t \in DOMAIN workers : LoadPut(t) /\ UNCHANGED <<memVars, batchVars, extraVars>>
    \/ \E t \in DOMAIN workers : LoadCheck(t) /\ UNCHANGED <<memVars, batchVars, extraVars>>
    \/ \E t \in DOMAIN workers : LoadEnd(t) /\ UNCHANGED <<memVars, batchVars, extraVars>>
    \/ MainExit /\ UNCHANGED <<memVars, batchVars, extraVars>>
Spec == Init /\ [][Next]_vars

\* A ThreadBufferedSource whose next() is called by two threads at once.
Consumers == {1, 2}
RaceInit ==
    /\ buffer_size \in 1..MaxRaceBuf
    /\ load_threshold = buffer_size \div 3
    /\ queue = <<>>
    /\ thread = 0
    /\ workers = <<>>
    /\ nthreads = 0
    /\ main_alive = TRUE
    /\ cpc = [c \in Consumers |-> "idle"]
    /\ calls = 0
    /\ fetched = <<>>
    /\ out = <<>>
    /\ NoMem /\ NoBatch /\ NoCsv /\ NoIter /\ NoNew /\ NoRace /\ NoRest
RaceNext ==
    \/ /\ Len(out) < MaxRaceGets
       /\ \E c \in DOMAIN cpc : TbsNextEnter(c)
       /\ UNCHANGED <<memVars, batchVars, extraVars>>
    \/ \E c \in DOMAIN cpc :
        TbsNextAliveOf(c)
            /\ UNCHANGED <<memVars, batchVars, csvVars, iterVars, newVars, restVars>>
    \/ \E c \in DOMAIN cpc :
        TbsNextAssign(c)
            /\ UNCHANGED <<memVars, batchVars, csvVars, iterVars, newVars, restVars>>
    \/ \E c \in DOMAIN cpc :
        TbsNextStartThread(c)
            /\ UNCHANGED <<memVars, batchVars, csvVars, iterVars, newVars, restVars>>
    \/ \E c \in DOMAIN cpc : TbsNextGet(c) /\ UNCHANGED <<memVars, batchVars, extraVars>>
    \/ \E c \in DOMAIN cpc : TbsNextTimeout(c) /\ UNCHANGED <<memVars, batchVars, extraVars>>
    \/ /\ calls < MaxRaceCalls
       /\ \E t \in DOMAIN workers : LoadFetch(t)
       /\ UNCHANGED <<memVars, batchVars, extraVars>>
    \/ \E t \in DOMAIN workers : LoadPut(t) /\ UNCHANGED <<memVars, batchVars, extraVars>>
    \/ \E t \in DOMAIN workers : LoadCheck(t) /\ UNCHANGED <<memVars, batchVars, extraVars>>
    \/ \E t \in DOMAIN workers : LoadEnd(t) /\ UNCHANGED <<memVars, batchVars, extraVars>>
RaceSpec == RaceInit /\ [][RaceNext]_vars

\* A ThreadBufferedSource whose consumer makes MaxGets calls of next(), over a
\* wrapped source whose every call returns or raises, the threads scheduled
\* fairly: a step a thread can take is taken in the end. When the consumer
\* makes a call, and when the thread that built the source ends, is up to them.
Frame == UNCHANGED <<memVars, batchVars, extraVars>>
LiveEnter == Len(out) < MaxGets /\ (\E c \in DOMAIN cpc : TbsNextEnter(c)) /\ Frame
LiveAlive == (\E c \in DOMAIN cpc : TbsNextAlive(c)) /\ Frame
LiveStart == (\E c \in DOMAIN cpc : TbsNextStart(c)) /\ Frame
LiveGet == (\E c \in DOMAIN cpc : TbsNextGet(c)) /\ Frame
LiveTimeout == (\E c \in DOMAIN cpc : TbsNextTimeout(c)) /\ Frame
LiveFetchOn == (\E t \in DOMAIN workers : LoadFetchOn(t)) /\ Frame
LivePut == (\E t \in DOMAIN workers : LoadPut(t)) /\ Frame
LiveCheck == (\E t \in DOMAIN workers : LoadCheck(t)) /\ Frame
LiveEnd == (\E t \in DOMAIN workers : LoadEnd(t)) /\ Frame
LiveExit == MainExit /\ Frame
LiveNext ==
    \/ LiveEnter
    \/ LiveAlive
    \/ LiveStart
    \/ LiveGet
    \/ LiveTimeout
    \/ LiveFetchOn
    \/ LivePut
    \/ LiveCheck
    \/ LiveEnd
    \/ LiveExit
Fairness ==
    /\ WF_vars(LiveAlive) /\ WF_vars(LiveStart) /\ WF_vars(LiveGet)
    /\ WF_vars(LiveTimeout) /\ WF_vars(LiveFetchOn)
    /\ WF_vars(LivePut) /\ WF_vars(LiveCheck) /\ WF_vars(LiveEnd)
LiveSpec == Init /\ [][LiveNext]_vars /\ Fairness

\* ThreadBufferedSource(input_source, buffer_size) called with integers of
\* either sign, with floats, bools and None, then used by one consumer.
BufferSizes ==
    {[type |-> "int", val |-> v] : v \in (-1)..MaxBuf}
        \cup {[type |-> "float", val |-> v] : v \in 1..MaxBuf}
        \cup {[type |-> "bool", val |-> v] : v \in 0..1}
        \cup {[type |-> "NoneType", val |-> 0]}
NewTbsSpecInit ==
    /\ tbs_args \in BufferSizes
    /\ tbs_made = ""
    /\ mem_args = <<>> /\ mem_made = "ok" /\ meta = Meta
    /\ buffer_size = 0 /\ load_threshold = 0 /\ queue = <<>> /\ thread = 0
    /\ workers = <<>> /\ nthreads = 0 /\ main_alive = TRUE
    /\ cpc = [c \in {1} |-> "idle"]
    /\ calls = 0 /\ fetched = <<>> /\ out = <<>>
    /\ NoMem /\ NoBatch /\ NoCsv /\ NoIter /\ unstarted = {} /\ raced = FALSE
    /\ thread_lock = 0 /\ NoRest
NewTbsStep ==
    \/ TbsNew
        /\ UNCHANGED <<memVars, batchVars, csvVars, iterVars, unstarted, raced, restVars>>
    \/ tbs_made = "ok" /\ Next
NewTbsSpec == NewTbsSpecInit /\ [][NewTbsStep]_vars

\* Widgets made, built and set up by one thread, in any order.
WidgetFrame == UNCHANGED <<memVars, batchVars, tbsVars, csvVars, iterVars, newVars,
                           raceVars, epochVars>>
WidgetInit ==
    /\ NoWidget
    /\ NoMem /\ NoBatch /\ NoTbs /\ NoCsv /\ NoIter /\ NoNew /\ NoRace /\ NoEpoch
WidgetNext ==
    \/ (\E name \in WidgetNames, build \in BOOLEAN, scope \in Scopes :
            TrainableNew(name, build, scope)) /\ WidgetFrame
    \/ (\E t \in DOMAIN trainables, scope \in Scopes : TrainableBuild(t, scope))
            /\ WidgetFrame
    \/ (\E t \in DOMAIN trainables : WidgetSetup(t)) /\ WidgetFrame
WidgetSpec == WidgetInit /\ [][WidgetNext]_vars

\* ------------------------------------------------------------------- claims
Range(f) == {f[x] : x \in DOMAIN f}
Count(seq, x) == Cardinality({i \in DOMAIN seq : seq[i] = x})
SameBag(s, t) ==
    /\ Len(s) = Len(t)
    /\ \A x \in Range(s) \cup Range(t) : Count(s, x) = Count(t, x)

\* the rows of a tuple of columns, in order
RowsOf(cols) == [i \in 1..Len(cols[1]) |-> [c \in 1..NumComp |-> cols[c][i]]]

\* new is old with one permutation applied to every column
IsReshuffle(old, new) ==
    \E perm \in Perms(Len(old[1])) : new = [c \in 1..NumComp |-> Take(old[c], perm)]

\* what next() returned, the raised errors left out
Values(seq) == SelectSeq(seq, LAMBDA x : x.kind \in {"row", "none"})

\* C1: with one consumer, the values next() has returned are, in order, the
\* values the wrapped source returned to the calls behind them (epoch markers
\* included): none lost, none twice, none out of order, for every buffer_size
\* and however many worker runs fetched them.
C1_PrefetchOrder ==
    /\ Len(out) <= Len(fetched)
    /\ Values(out) = Values(SubSeq(fetched, 1, Len(out)))
    /\ \A i \in 1..Len(out) : out[i].kind \in {"row", "none"} => out[i] = fetched[i]

C1_Witness ==
    /\ buffer_size = 1
    /\ nthreads >= 3
    /\ Len(out) = 3
    /\ out[1].kind = "row" /\ out[2].kind = "none" /\ out[3].kind = "row"

\* the k-th call of the wrapped source is the first that raised
FirstError(k) ==
    /\ fetched[k].kind = "exc"
    /\ \A i \in 1..(k - 1) : fetched[i].kind # "exc"

C3_OneWorker ==
    /\ Cardinality(DOMAIN workers) <= 1
    /\ \A c \in DOMAIN cpc : cpc[c] = "start" => DOMAIN workers = {}

C3_Witness ==
    /\ nthreads >= 2
    /\ Cardinality(DOMAIN workers) = 1
    /\ queue # <<>>

\* the rows of a sequence of batches, put end to end
RECURSIVE Flatten(_)
Flatten(batches) ==
    IF batches = <<>> THEN <<>> ELSE RowsOf(Head(batches)) \o Flatten(Tail(batches))

BatchRows(b) == Len(b[1])
LastBatchRows == IF size % batch_size = 0 THEN batch_size ELSE size % batch_size

\* C4: a BatchSource of batch size n > 0 over a source whose pass has M rows:
\* the batches returned in a pass, put end to end, are the M rows fetched in
\* that pass in fetch order; every batch but the last has n rows and the last
\* has M mod n (n when n divides M); one epoch marker is returned per pass.
C4_BatchPartition ==
    batch_size > 0 =>
        /\ markers + (IF eof THEN 1 ELSE 0) = loop
        /\ Flatten(pass.batches) = pass.rows
        /\ \A i \in 1..Len(pass.batches) :
            (i < Len(pass.batches) \/ ~eof) => BatchRows(pass.batches[i]) = batch_size
        /\ eof => /\ Len(pass.rows) = size
                  /\ BatchRows(pass.batches[Len(pass.batches)]) = size % batch_size
        /\ (blast.op = "next" /\ blast.ret.kind = "none") =>
            /\ Flatten(done.batches) = done.rows
            /\ Len(done.rows) = size
            /\ SameBag(done.rows, RowsOf(columns))
            /\ \A i \in 1..(Len(done.batches) - 1) :
                BatchRows(done.batches[i]) = batch_size
            /\ done.batches # <<>> =>
                BatchRows(done.batches[Len(done.batches)]) = LastBatchRows

C4_Witness ==
    /\ batch_size = 2
    /\ size = 3
    /\ markers = 2
    /\ blast.ret.kind = "none"
    /\ Len(done.batches) = 2
    /\ BatchRows(done.batches[2]) = 1

\* C5: a MemorySource of size N called through next() alone: a call returns a
\* row when fewer than N rows have been returned since the last epoch marker,
\* and the epoch marker when exactly N have, whatever the loop counter is.
C5_EpochComplete ==
    /\ served <= size
    /\ mlast.op = "next" =>
        /\ mlast.ret.kind = "row" => mlast.served < size
        /\ mlast.ret.kind = "none" => mlast.served = size
        /\ mlast.ret.kind \in {"row", "none"}

C5_Witness ==
    /\ size = 3
    /\ loop = 2
    /\ mlast.op = "next"
    /\ mlast.ret.kind = "none"
    /\ mlast.served = 3

\* C6: under any sequence of next(), next_batch(n), shuffle() and all() calls
\* the cursor stays within 0..size and the loop counter never decreases.
C6_CursorInRange ==
    /\ [](0 <= start /\ start <= size)
    /\ [][loop' >= loop]_vars

C6_Witness ==
    /\ size = 2
    /\ start = size
    /\ loop >= 2
    /\ mlast.op = "next"
    /\ mlast.loop >= 1

\* C7: next() with start < size returns the row at index start, advances start
\* by 1 and leaves loop and the columns as they were; with start = size it
\* returns the epoch marker, sets start to 0, adds 1 to loop and reshuffles
\* the columns.
C7_NextContract ==
    (mlast.op = "next" /\ nb = NoCall) =>
        IF mlast.start < size
        THEN /\ mlast.ret = RowVal(RowAt(mlast.columns, mlast.start))
             /\ start = mlast.start + 1
             /\ loop = mlast.loop
             /\ columns = mlast.columns
        ELSE /\ mlast.start = size
             /\ mlast.ret = None
             /\ start = 0
             /\ loop = mlast.loop + 1
             /\ IsReshuffle(mlast.columns, columns)

C7_Witness ==
    /\ mlast.op = "next"
    /\ nb = NoCall
    /\ size = 2
    /\ mlast.start = size
    /\ mlast.loop = 1
    /\ columns # mlast.columns

\* C8: shuffle(passes), passes >= 0, applies one permutation to every column:
\* the rows after the call are the rows before it in some order, each with its
\* fields together, and size, start and loop are as they were.
C8_ShuffleKeepsRows ==
    (mlast.op = "shuffle" /\ nb = NoCall) =>
        /\ IsReshuffle(mlast.columns, columns)
        /\ SameBag(RowsOf(mlast.columns), RowsOf(columns))
        /\ mlast.n = 0 => columns = mlast.columns
        /\ size = mlast.size
        /\ start = mlast.start
        /\ loop = mlast.loop

C8_Witness ==
    /\ mlast.op = "shuffle"
    /\ nb = NoCall
    /\ mlast.n = 1
    /\ size = 2
    /\ start = 1
    /\ columns # mlast.columns

\* C9: next_batch(n) with n > 0 on a dataset of N >= 1 rows returns n rows in
\* every column, rows of the dataset taken from the cursor on and across the
\* end of the pass, never the epoch marker; next_batch(0) returns the whole
\* dataset and leaves start and loop as they were.
C9_NextBatchSize ==
    (mlast.op = "next_batch" /\ size >= 1) =>
        /\ mlast.ret.kind = "batch"
        /\ mlast.n > 0 =>
            /\ \A c \in 1..NumComp : Len(mlast.ret.val[c]) = mlast.n
            /\ Range(RowsOf(mlast.ret.val)) \subseteq Range(RowsOf(columns))
            /\ mlast.start > 0 =>
                LET k == Min(mlast.n, size - mlast.start) IN
                Slice(mlast.ret.val, 0, k) =
                    Slice(mlast.columns, mlast.start, mlast.start + k)
        /\ mlast.n = 0 =>
            /\ mlast.ret.val = mlast.columns
            /\ nb = NoCall => (start = mlast.start /\ loop = mlast.loop)

C9_Witness ==
    /\ mlast.op = "next_batch"
    /\ size = 2
    /\ mlast.n = 3
    /\ mlast.start = 1
    /\ nb = NoCall
    /\ loop = mlast.loop + 2

\* C10: when the input returns the epoch marker after 1..n-1 rows of a batch,
\* next() returns those rows as a batch and sets eof; the next call of next()
\* returns the epoch marker, clears eof and makes no call of the input's next().
C10_DeferredMarker ==
    (batch_size > 0 /\ blast.op = "next") =>
        /\ (blast.marker /\ blast.ret.kind = "batch") =>
            /\ eof
            /\ BatchRows(blast.ret.val) \in 1..(batch_size - 1)
            /\ blast.calls = BatchRows(blast.ret.val) + 1
            /\ RowsOf(blast.ret.val) =
                   RowsOf(Slice(blast.m.columns, blast.m.start, size))
        /\ eof => (blast.marker /\ blast.ret.kind = "batch")
        /\ blast.eof =>
            /\ blast.ret = None
            /\ ~eof
            /\ blast.calls = 0
            /\ <<columns, start, loop>> = <<blast.m.columns, blast.m.start, blast.m.loop>>

C10_Witness ==
    /\ batch_size = 2
    /\ size = 3
    /\ blast.op = "next"
    /\ blast.eof
    /\ blast.ret = None
    /\ ~eof
    /\ loop = 1

\* the callables the calls of log registered for column col as cell or column
\* transforms (kind), in call order
RECURSIVE RegisteredFor(_, _, _)
RegisteredFor(log, kind, col) ==
    IF log = <<>> THEN <<>>
    ELSE LET h == Head(log)
         IN  (IF h.kind = kind /\ (\E i \in DOMAIN h.names : h.names[i] = col)
              THEN h.fns ELSE <<>>) \o RegisteredFor(Tail(log), kind, col)

\* fns = [f, g] gives g(f(x))
RECURSIVE Nest(_, _)
Nest(fns, x) ==
    IF fns = <<>> THEN x
    ELSE Call(fns[Len(fns)], Nest(SubSeq(fns, 1, Len(fns) - 1), x))

\* C11: what next() returns for column c is built from the cells the input
\* returned for it: every cell goes through the cell transforms registered
\* for c by all the add_cell_fns calls so far, in registration order, and a
\* batch's assembled column then goes once through the batch transforms
\* registered for c, in registration order; a column with no transform
\* registered is returned as the input gave it.
C11_Transforms ==
    (blast.op = "next" /\ blast.ret # None) =>
        \A j \in DOMAIN Meta :
            LET cfns == RegisteredFor(registered, "cell", Meta[j])
                bfns == RegisteredFor(registered, "column", Meta[j])
                raw == [i \in 1..Len(blast.fetched) |-> blast.fetched[i][j]]
                cells == [i \in 1..Len(raw) |-> Nest(cfns, raw[i])]
            IN  /\ blast.ret.kind = "batch" => blast.ret.val[j] = Nest(bfns, cells)
                /\ blast.ret.kind = "row" => blast.ret.val[j] = cells[1]
                /\ (blast.ret.kind = "batch" /\ cfns = <<>> /\ bfns = <<>>) =>
                       blast.ret.val[j] = raw
                /\ (blast.ret.kind = "row" /\ cfns = <<>>) =>
                       blast.ret.val[j] = raw[1]

C11_Witness ==
    /\ batch_size = 2
    /\ size = 2
    /\ blast.op = "next"
    /\ blast.ret.kind = "batch"
    /\ Len(blast.fetched) = 2
    /\ Len(registered) = 2
    /\ RegisteredFor(registered, "cell", "x") = <<"f", "g">>
    /\ RegisteredFor(registered, "column", "x") = <<"g">>
    /\ RegisteredFor(registered, "column", "y") = <<"g">>
    /\ RegisteredFor(registered, "cell", "y") = <<>>
    /\ blast.ret.val[1] =
           Call("g", <<Call("g", Call("f", 1)), Call("g", Call("f", 2))>>)
    /\ blast.ret.val[2] = Call("g", <<"a", "b">>)

\* the header row of the stream has every column name asked for
AllFieldsPresent == \A c \in DOMAIN Meta : Meta[c] \in csv_fields
\* the cells of record doc under the names asked for
Project(doc) == [c \in DOMAIN Meta |-> doc[Meta[c]]]

\* C12: over a stream whose header has the columns asked for, the call made
\* with k records handed out and one left returns record k+1; the call made
\* with none left returns the epoch marker, builds the MemorySource from the
\* records in stream order and drops the reader and the buffers; every call
\* after that is MemorySource.next() on it, and the reader is asked for a
\* record once per record and once more, never again.
C12_CsvPhases ==
    (AllFieldsPresent /\ csv_last.op = "next") =>
        /\ csv_last.raised = ""
        /\ csv_reads <= Len(csv_records) + 1
        /\ ~csv_memory => csv_reads = csv_pos /\ csv_iter
        /\ (~csv_last.memory /\ csv_last.pos < Len(csv_records)) =>
            /\ csv_last.ret = RowVal(Project(csv_records[csv_last.pos + 1]))
            /\ csv_pos = csv_last.pos + 1
            /\ ~csv_memory
        /\ (~csv_last.memory /\ csv_last.pos = Len(csv_records)) =>
            /\ csv_last.ret = None
            /\ csv_memory /\ ~csv_iter /\ csv_columns = <<>>
            /\ size = Len(csv_records) /\ start = 0 /\ loop = 0
            /\ columns = [c \in DOMAIN Meta |->
                             [i \in 1..Len(csv_records) |-> csv_records[i][Meta[c]]]]
        /\ csv_last.memory =>
            /\ csv_last.from = "memory"
            /\ csv_reads = csv_last.reads
            /\ csv_pos = Len(csv_records)
            /\ mlast.op = "next"
            /\ csv_last.ret = mlast.ret

C12_Witness ==
    /\ AllFieldsPresent
    /\ Len(csv_records) = 3
    /\ csv_records[1] # csv_records[2]
    /\ csv_memory
    /\ csv_reads = 4
    /\ csv_last.op = "next"
    /\ csv_last.from = "memory"
    /\ csv_last.ret.kind = "row"
    /\ loop = 1

\* how many entries of seq are the error the k-th call raised, as kind
Errors(seq, kind, k) ==
    Cardinality({i \in DOMAIN seq : seq[i] = [kind |-> kind, id |-> k]})
\* worker runs that caught the error the k-th call raised and have yet to put it
Holding(k) ==
    Cardinality({t \in DOMAIN workers : workers[t].pc = "except" /\ workers[t].row.id = k})

\* C13: the error the k-th call of the wrapped source raised is, in every
\* state, in exactly one place: with the worker run that caught it, once in
\* the queue, or raised by one next() call, so that it is enqueued once and
\* raised at most once; and a worker run that has caught an error puts it and
\* ends without calling the wrapped source again.
C13_ErrorOnce ==
    /\ [](\A k \in 1..Len(fetched) : fetched[k].kind = "exc" =>
            Holding(k) + Errors(queue, "exc", k) + Errors(out, "raised", k) = 1)
    /\ [][\A t \in DOMAIN workers :
            workers[t].pc \in {"except", "end"} =>
                /\ t \in DOMAIN workers' =>
                       workers'[t].pc \in {workers[t].pc, "end"}
                /\ calls' = calls]_vars

C13_Witness ==
    /\ Len(out) = 3
    /\ fetched[1].kind = "exc"
    /\ out[1] = [kind |-> "raised", id |-> 1]
    /\ out[2].kind = "row"
    /\ out[3].kind = "row"
    /\ queue = <<>>
    /\ workers = <<>>

\* C14: next() raises exactly when the input's next() or a transform raised
\* during the call, and then it raises that exception, the only one raised:
\* the call ends there, a raising fetch being the last call made of the
\* input. A call that met the epoch marker or ran with eof set, and in which
\* nothing raised, returns a batch or the epoch marker.
C14_Propagation ==
    blast.op = "next" =>
        /\ blast.ret.kind = "raised" <=> blast.thrown # <<>>
        /\ blast.ret.kind = "raised" =>
            /\ blast.thrown = blast.ret.val
            /\ blast.thrown[1].by = "input" =>
                /\ blast.calls = Len(blast.fetched) + 1
                /\ <<columns, start, loop>> =
                       <<blast.m.columns, blast.m.start, blast.m.loop>> \/ blast.calls > 1
        /\ ((blast.marker \/ blast.eof) /\ blast.thrown = <<>>) =>
            blast.ret.kind \in {"batch", "none"}

C14_Witness ==
    /\ batch_size = 2
    /\ blast.op = "next"
    /\ blast.ret = RaisedVal(InputError)
    /\ blast.calls = 2
    /\ Len(blast.fetched) = 1
    /\ ~eof
    /\ markers = 1

\* C15: a BatchSource of batch size n > 0 returns no batch made of no row;
\* the call whose first call of the input returns the epoch marker returns
\* the epoch marker, leaves eof false and runs no batch transform, so that
\* none raises even when one that would is registered.
C15_NoEmptyBatch ==
    (batch_size > 0 /\ blast.op = "next") =>
        /\ blast.ret.kind = "batch" => Len(blast.fetched) >= 1
        /\ (blast.marker /\ blast.calls = 1) =>
            /\ blast.ret = None
            /\ blast.thrown = <<>>
            /\ ~blast.eof /\ ~eof

C15_Witness ==
    /\ batch_size = 2
    /\ size = 2
    /\ "x" \in DOMAIN column_fns
    /\ column_fns["x"] = <<"bad">>
    /\ blast.op = "next"
    /\ blast.marker /\ blast.calls = 1
    /\ blast.ret = None
    /\ ~eof

\* C16: a BatchSource built with a negative batch size returns no batch, and
\* as long as it has returned nothing its next() calls have raised: its first
\* call fails if its construction did not.
C16_NegativeRejected ==
    (batch_size < 0 /\ blast.op = "next") =>
        /\ blast.ret.kind # "batch"
        /\ markers = 0 /\ pass = NoPass => blast.ret.kind = "raised"

\* a BatchSource of negative batch size has returned a batch of no row
\* without calling its input
C16_Witness ==
    /\ batch_size = -1
    /\ size = 2
    /\ blast.op = "next"
    /\ blast.ret = BatchVal(EmptyColumns)
    /\ blast.calls = 0
    /\ start = 0
    /\ Len(pass.batches) = 2

\* the values of a sequence of returned rows
ValsOf(rets) == [i \in DOMAIN rets |-> rets[i].val]

\* C17: __next__ raises StopIteration exactly when next() has returned the
\* epoch marker to it, and returns what next() returned otherwise; the
\* iteration it ends has delivered each row of the dataset once, as has every
\* iteration before, the source going on to its next pass; StopIteration has
\* been raised once per completed pass.
C17_IterationIsPass ==
    /\ it_stops = loop
    /\ Len(it_rows) = start
    /\ it_last.op = "__next__" =>
        /\ it_last.stop <=> it_last.sample = None
        /\ ~it_last.stop => /\ it_last.ret = it_last.sample
                            /\ it_last.ret.kind = "row"
                            /\ it_last.ret.val = RowAt(columns, start - 1)
        /\ it_last.stop => /\ Len(it_prev) = size
                           /\ SameBag(ValsOf(it_prev), RowsOf(columns))
                           /\ start = 0

C17_Witness ==
    /\ size = 3
    /\ it_stops = 2
    /\ it_last.op = "__next__"
    /\ it_last.stop
    /\ Len(it_prev) = 3
    /\ it_prev[1] # it_prev[2]

\* C18: every row next() returns on a MemorySource its constructor built
\* has one value per name of meta(), and meta() is the column_names the
\* constructor was given, whenever it is called.
C18_RowMatchesMeta ==
    mem_made = "ok" =>
        /\ meta = mem_args.column_names
        /\ (mlast.op = "next" /\ mlast.ret.kind = "row") =>
               Len(mlast.ret.val) = Len(meta)

\* a MemorySource built from one column and two names has returned a row
C18_Witness ==
    /\ mem_made = "ok"
    /\ Len(mem_args.columns) = 1
    /\ meta = <<"x", "y">>
    /\ mlast.op = "next"
    /\ mlast.ret.kind = "row"
    /\ Len(mlast.ret.val) = 1

\* a positive integer, as Python has it
PositiveInteger(x) == x.type \in {"int", "bool"} /\ x.val >= 1

\* C19: ThreadBufferedSource(input, buffer_size) raises an error, and no
\* worker is ever started, unless buffer_size is a positive integer; when it
\* is, construction succeeds with load_threshold = buffer_size // 3, and the
\* queue is empty and the worker handle unset until a worker is started.
C19_BufferSizeChecked ==
    tbs_made # "" =>
        /\ ~PositiveInteger(tbs_args) =>
            /\ tbs_made \notin {"", "ok"}
            /\ nthreads = 0 /\ workers = <<>> /\ thread = 0
        /\ PositiveInteger(tbs_args) =>
            /\ tbs_made = "ok"
            /\ buffer_size = tbs_args.val
            /\ load_threshold * 3 <= buffer_size
            /\ buffer_size < (load_threshold + 1) * 3
            /\ nthreads = 0 => queue = <<>> /\ thread = 0 /\ workers = <<>>

C19_Witness ==
    /\ tbs_args = [type |-> "int", val |-> 3]
    /\ tbs_made = "ok"
    /\ load_threshold = 1
    /\ nthreads = 0
    /\ queue = <<>>
    /\ cpc[1] = "idle"

\* C20: MemorySource(columns, column_names) raises an error when columns is
\* empty and when its columns are not all of one length; otherwise it
\* succeeds with size the common length and, until a call is made, start = 0,
\* loop = 0 and the columns as given.
C20_ColumnsChecked ==
    mem_made # "" =>
        LET cols == mem_args.columns
            equal == \A c \in DOMAIN cols : Len(cols[c]) = Len(cols[1])
        IN  /\ (cols = <<>> \/ ~equal) =>
                /\ mem_made # "ok"
                /\ mlast = NoLast
            /\ (cols # <<>> /\ equal) =>
                /\ mem_made = "ok"
                /\ size = Len(cols[1])
                /\ mlast = NoLast => start = 0 /\ loop = 0 /\ columns = cols

C20_Witness ==
    /\ Len(mem_args.columns) = 2
    /\ Len(mem_args.columns[1]) = 2
    /\ Len(mem_args.columns[2]) = 1
    /\ mem_made = "ValueError: All data components must have the same size."

\* C21: a BatchSource of batch size 0 makes one call of its input per next()
\* call: a row the input returned is returned with the cell transforms of its
\* columns applied and no batch transform, registered or not; the epoch marker
\* is returned by the call that got it from the input, the one made with the
\* input's cursor at its size; the eof flag is never set.
C21_PassThrough ==
    batch_size = 0 =>
        /\ ~eof
        /\ blast.op = "next" =>
            /\ blast.calls = 1
            /\ ~blast.eof
            /\ blast.ret.kind \in {"row", "none"}
            /\ blast.ret = None <=> blast.marker
            /\ blast.marker <=> blast.m.start = size
            /\ blast.marker => blast.fetched = <<>> /\ loop = blast.m.loop + 1
            /\ blast.ret.kind = "row" =>
                /\ blast.fetched = <<RowAt(blast.m.columns, blast.m.start)>>
                /\ start = blast.m.start + 1
                /\ \A j \in DOMAIN Meta :
                    blast.ret.val[j] =
                        Nest(RegisteredFor(registered, "cell", Meta[j]),
                             blast.fetched[1][j])

C21_Witness ==
    /\ batch_size = 0
    /\ size = 2
    /\ RegisteredFor(registered, "cell", "x") = <<"g">>
    /\ RegisteredFor(registered, "cell", "y") = <<>>
    /\ RegisteredFor(registered, "column", "x") = <<"f", "g">>
    /\ blast.op = "next"
    /\ blast.ret.kind = "row"
    /\ blast.ret = RowVal(<<Call("g", 1), "a">>)
    /\ markers = 1
    /\ Len(pass.rows) = 1

\* the first of the names asked for that the header row lacks
FirstAbsent == CHOOSE c \in DOMAIN Meta :
                   Meta[c] \notin csv_fields /\ \A d \in 1..(c - 1) : Meta[d] \in csv_fields

\* C22: when the header row lacks a column name asked for, a next() call that
\* reads a record raises KeyError and returns no row; it raises on reaching
\* the first absent name, the cells of the names before it appended to their
\* buffers and nothing appended for the names from it on.
C22_AbsentColumnRaises ==
    (~AllFieldsPresent /\ csv_last.op = "next" /\ ~csv_last.memory
        /\ csv_last.pos < Len(csv_records)) =>
        /\ csv_last.raised = "KeyError"
        /\ csv_last.from = "stream"
        /\ csv_pos = csv_last.pos + 1
        /\ ~csv_memory
        /\ \A c \in DOMAIN Meta :
            csv_columns[c] =
                IF c < FirstAbsent
                THEN Append(csv_last.columns[c], csv_records[csv_pos][Meta[c]])
                ELSE csv_last.columns[c]

C22_Witness ==
    /\ csv_fields = {"x"}
    /\ Len(csv_records) = 2
    /\ csv_last.op = "next"
    /\ csv_last.pos = 1
    /\ csv_last.raised = "KeyError"
    /\ Len(csv_columns[1]) = 2
    /\ csv_columns[2] = <<>>

\* C23: a MemorySource has not reordered its rows before its first epoch
\* rollover: while the loop counter is 0 the k-th next() call returns row k of
\* the columns the constructor was given, and the call after the last row
\* returns the epoch marker. Built from [1, 2, 3] and [a, b, c] it returns
\* (1, a), (2, b), (3, c), then the epoch marker.
C23_FirstPassInOrder ==
    (mem_made = "ok" /\ mlast.op = "next" /\ mlast.loop = 0) =>
        LET given == mem_args.columns
            k == mlast.served
        IN  /\ k = mlast.start
            /\ mlast.columns = given
            /\ k < Len(given[1]) =>
                   mlast.ret = RowVal([c \in DOMAIN given |-> given[c][k + 1]])
            /\ k >= Len(given[1]) => /\ k = Len(given[1])
                                     /\ mlast.ret = None
                                     /\ loop = 1
            /\ mem_args = ThreeRows =>
                   mlast.ret = <<RowVal(<<1, "a">>), RowVal(<<2, "b">>),
                                 RowVal(<<3, "c">>), None>>[k + 1]

C23_Witness ==
    /\ mem_args = ThreeRows
    /\ mem_made = "ok"
    /\ mlast.op = "next"
    /\ mlast.loop = 0
    /\ mlast.served = 3
    /\ mlast.ret = None
    /\ loop = 1
    /\ columns # mem_args.columns

\* C24: called by two threads, next() lets each of them start a worker while
\* the other's is alive: what a caller's liveness check finds depends on the
\* worker handle alone, not on what another caller is doing, every start()
\* of a thread not started before adds a live worker to those alive, and the
\* semaphore is at its initial value in every state.
C24_UnguardedStart ==
    /\ [](thread_lock = 1)
    /\ [][\A c \in DOMAIN cpc :
            (cpc[c] \in {"alive1", "alive2"} /\ cpc'[c] # cpc[c]) =>
                (cpc'[c] = "start" <=> (thread = 0 \/ thread \notin DOMAIN workers))]_vars
    /\ [][\A c \in DOMAIN cpc :
            (cpc[c] = "starting" /\ cpc'[c] = "get") =>
                /\ thread \notin DOMAIN workers
                /\ DOMAIN workers' = DOMAIN workers \cup {thread}]_vars

\* both callers found no live worker before a Thread object was made; each has
\* started a worker, both workers are alive and each has called the wrapped
\* source's next()
C24_Witness ==
    /\ raced
    /\ DOMAIN workers = {1, 2}
    /\ \A t \in {1, 2} : workers[t].pc \in {"put", "except"}
    /\ workers[1].row.id # workers[2].row.id
    /\ calls = 2
    /\ thread_lock = 1

\* C25: with one consumer, a wrapped source whose every call returns or
\* raises and threads scheduled fairly, every next() call ends: it returns an
\* item or raises the error a worker relayed. In particular the consumer does
\* not wait for ever on an empty queue while no worker is alive.
C25_NextReturns ==
    /\ \A c \in {1} : \A n \in 0..(MaxGets - 1) :
        (cpc[c] # "idle" /\ Len(out) = n) ~> (cpc[c] = "idle" /\ Len(out) = n + 1)
    /\ \A c \in {1} : (cpc[c] = "get" /\ queue = <<>> /\ workers = <<>>) ~> queue # <<>>

\* the consumer waits on an empty queue after its worker has ended
C25_Witness ==
    /\ cpc[1] = "get"
    /\ queue = <<>>
    /\ workers = <<>>
    /\ nthreads = 1
    /\ Len(out) = 1

\* C26: with one consumer, a worker is started only by a next() call that
\* has just found no live worker, and none is alive when it is started; the
\* call looks for a live worker only on entry with at most load_threshold
\* items in the queue, or after a get that timed out on an empty queue. A
\* call that enters with more than load_threshold items goes straight to the
\* get, and a get on a queue that is not empty returns or raises its head
\* and ends the call without a worker being started.
C26_StartCondition ==
    /\ [][nthreads' # nthreads =>
            /\ nthreads' = nthreads + 1
            /\ workers = <<>>
            /\ \E c \in DOMAIN cpc : cpc[c] = "start" /\ cpc'[c] = "get"]_vars
    /\ [][\A c \in DOMAIN cpc : (cpc'[c] = "start" /\ cpc[c] # "start") =>
            /\ cpc[c] \in {"alive1", "alive2"}
            /\ thread = 0 \/ thread \notin DOMAIN workers]_vars
    /\ [][\A c \in DOMAIN cpc : (cpc'[c] = "alive1" /\ cpc[c] # "alive1") =>
            /\ cpc[c] = "idle"
            /\ Len(queue) <= load_threshold]_vars
    /\ [][\A c \in DOMAIN cpc : (cpc'[c] = "alive2" /\ cpc[c] # "alive2") =>
            /\ cpc[c] = "get"
            /\ queue = <<>>]_vars
    /\ [][\A c \in DOMAIN cpc : (cpc[c] = "idle" /\ cpc'[c] # "idle") =>
            /\ nthreads' = nthreads
            /\ Len(queue) > load_threshold => cpc'[c] = "get"]_vars
    /\ [][\A c \in DOMAIN cpc : (cpc[c] = "get" /\ queue # <<>> /\ cpc'[c] # "get") =>
            /\ cpc'[c] = "idle"
            /\ nthreads' = nthreads
            /\ queue' = Tail(queue)
            /\ Len(out') = Len(out) + 1
            /\ out'[Len(out')].id = Head(queue).id]_vars

\* a call that entered with two items in the queue, the threshold being one,
\* is at the get with no worker alive, the only worker so far having ended
C26_Witness ==
    /\ buffer_size = 3
    /\ load_threshold = 1
    /\ cpc[1] = "get"
    /\ Len(queue) = 2
    /\ workers = <<>>
    /\ nthreads = 1
    /\ Len(out) = 1

\* C27: a worker run calls the wrapped source only in a turn of its loop
\* numbered below buffer_size, so at most buffer_size times; what a call
\* returned or raised is put in the queue before the run does anything else,
\* once, at the tail, so that the entries are in call order; and a run ends
\* only on the put of an exception, after its turn number buffer_size, or on
\* finding the thread that built the source dead after a put.
C27_WorkerRun ==
    /\ [](\A t \in DOMAIN workers :
            /\ workers[t].i <= buffer_size
            /\ workers[t].pc # "end" => workers[t].i < buffer_size
            /\ workers[t].pc \in {"put", "except"} =>
                /\ workers[t].row = fetched[calls]
                /\ (workers[t].pc = "except") = (workers[t].row.kind = "exc"))
    /\ [](Len(out) + Len(queue)
            + Cardinality({t \in DOMAIN workers : workers[t].pc \in {"put", "except"}})
          = calls)
    /\ [][calls' # calls =>
            /\ calls' = calls + 1
            /\ \E t \in DOMAIN workers :
                /\ workers[t].pc = "fetch" /\ workers[t].i < buffer_size
                /\ workers'[t].pc \in {"put", "except"}]_vars
    /\ [][\A t \in DOMAIN workers :
            (workers[t].pc \in {"put", "except"} /\ t \in DOMAIN workers'
                /\ workers'[t] # workers[t]) =>
                /\ queue' = Append(queue, workers[t].row)
                /\ calls' = calls]_vars
    /\ [][Len(queue') > Len(queue) =>
            \E t \in DOMAIN workers :
                /\ workers[t].pc \in {"put", "except"}
                /\ queue' = Append(queue, fetched[calls])]_vars
    /\ [][\A t \in DOMAIN workers \cap DOMAIN workers' :
            (workers'[t].pc = "end" /\ workers[t].pc # "end") =>
                \/ workers[t].pc = "except" /\ Len(queue') = Len(queue) + 1
                \/ workers[t].pc = "check" /\ workers'[t].i = buffer_size
                \/ workers[t].pc = "check" /\ ~main_alive]_vars
    /\ [][\A t \in DOMAIN workers \cap DOMAIN workers' :
            (workers[t].pc = "check" /\ workers'[t].pc # "check") =>
                workers'[t].pc = (IF workers[t].i + 1 >= buffer_size \/ ~main_alive
                                  THEN "end" ELSE "fetch")]_vars

\* a run of a worker of buffer size 3 is over after three calls, the three
\* results in the queue in call order
C27_Witness ==
    /\ buffer_size = 3
    /\ main_alive
    /\ nthreads = 1
    /\ 1 \in DOMAIN workers
    /\ workers[1].pc = "end"
    /\ workers[1].i = 3
    /\ calls = 3
    /\ queue = fetched

\* C28: once the thread that built the source is dead, a worker run makes no
\* further turn of its loop: a run at the fetch still makes its call and its
\* put, whatever the call returns, a run past the fetch never comes back to
\* it, the check that follows a put ends the run, and a run started then
\* begins at its first fetch, so that it fetches and puts one item and ends.
\* Nothing but that check depends on the thread being alive.
C28_SentinelCheck ==
    /\ [][~main_alive => main_alive' = FALSE]_vars
    /\ [][\A t \in DOMAIN workers' :
            (~main_alive /\ workers'[t].pc = "fetch") =>
                \/ t \in DOMAIN workers /\ workers[t] = workers'[t]
                \/ t \notin DOMAIN workers /\ workers'[t].i = 0]_vars
    /\ [][\A t \in DOMAIN workers \cap DOMAIN workers' :
            (~main_alive /\ workers[t].pc = "check" /\ workers'[t] # workers[t]) =>
                workers'[t].pc = "end"]_vars
    /\ [][\A t \in DOMAIN workers \cap DOMAIN workers' :
            (workers[t].pc = "fetch" /\ workers'[t] # workers[t]) =>
                /\ workers'[t].pc \in {"put", "except"}
                /\ calls' = calls + 1]_vars
    /\ [][\A t \in DOMAIN workers \cap DOMAIN workers' :
            (workers[t].pc = "put" /\ workers'[t] # workers[t]) =>
                /\ workers'[t].pc = "check"
                /\ Len(queue') = Len(queue) + 1]_vars

\* the first run ended on finding the thread dead after one put; the second,
\* started after that, has put one item and is over, two turns short of its
\* buffer size
C28_Witness ==
    /\ buffer_size = 3
    /\ ~main_alive
    /\ nthreads = 2
    /\ calls = 2
    /\ fetched[1].kind = "row" /\ fetched[2].kind = "row"
    /\ DOMAIN workers = {2}
    /\ workers[2].pc = "end"
    /\ workers[2].i = 1
    /\ Len(out) = 1
    /\ Len(queue) = 1

\* C29: with one consumer the queue never holds more than buffer_size +
\* load_threshold entries.
C29_QueueBound == Len(queue) <= buffer_size + load_threshold

\* the consumer has taken one of four rows; the other three are in the queue
\* of a source of buffer size 2, the last two put by a second worker
C29_Witness ==
    /\ buffer_size = 2
    /\ load_threshold = 0
    /\ DOMAIN cpc = {1}
    /\ nthreads = 2
    /\ Len(out) = 1
    /\ calls = 4
    /\ \A k \in 1..4 : fetched[k].kind = "row"
    /\ queue = SubSeq(fetched, 2, 4)

\* C30: while the error the k-th call of the wrapped source raised is in the
\* queue, not yet taken by the consumer, no call after the k-th has been made
\* and the error is the last entry of the queue: nothing fetched after it is
\* behind it.
C30_NoFetchPastError ==
    \A i \in DOMAIN queue :
        queue[i].kind = "exc" => (calls = queue[i].id /\ i = Len(queue))

\* the first call raised; the consumer has been handed nothing yet, and a
\* second worker has put the row of a second call behind the error
C30_Witness ==
    /\ buffer_size = 1
    /\ out = <<>>
    /\ nthreads = 2
    /\ calls = 2
    /\ queue = <<[kind |-> "exc", id |-> 1], [kind |-> "row", id |-> 2]>>

\* a step in which next() returned a row; one in which _next_batch(n), n > 0,
\* took rows from the columns
RowByNext == mlast'.op = "next" /\ start' = start + 1
RowsByChunk == (nb.active \/ nb'.active \/ mlast'.op = "next_batch")
                    /\ (start' # start \/ loop' # loop) /\ start < size

\* C31: for a MemorySource driven by any mix of next() and next_batch(n),
\* every increment of loop is followed by a call of shuffle() before a row of
\* the new pass is handed out: a row of a pass after the first is only taken
\* from the columns once shuffle() has been called since loop was incremented.
C31_ReshuffleEveryPass ==
    /\ [][(RowByNext /\ loop # 0) => reshuffled]_vars
    /\ [][(RowsByChunk /\ loop # 0) => (reshuffled \/ ShuffledAtHead)]_vars

\* next_batch has ended the first pass and next() has returned the first row
\* of the second, no shuffle() having been called in between
C31_Witness ==
    /\ mlast.op = "next"
    /\ mlast.ret.kind = "row"
    /\ mlast.start = 0
    /\ mlast.loop = 1
    /\ mlast.ret.val = RowAt(columns, 0)
    /\ ~reshuffled
    /\ size = 2

\* C32: if only next_batch(n) with n > 0 is called on a MemorySource of
\* N >= 1 rows, the rows handed out, cut into consecutive blocks of N, make
\* blocks that are each a permutation of the dataset's rows. The rows of the
\* block in progress are the first rows of the columns as they now stand, one
\* per position up to the cursor, so that a full block is the columns in their
\* order of that pass; the columns are reordered only with the cursor at 0.
C32_BlocksArePasses ==
    /\ [](Len(block) = IF start = 0 /\ block # <<>> THEN size ELSE start)
    /\ [](block = SubSeq(RowsOf(columns), 1, Len(block)))
    /\ [](Len(block) = size => SameBag(block, RowsOf(mem_args.columns)))
    /\ [][columns' # columns => (start = 0 /\ IsReshuffle(columns, columns'))]_vars

\* the second block is complete, in another order than the first, in the
\* middle of a call whose batch goes on into the third pass
C32_Witness ==
    /\ size = 2
    /\ loop = 2
    /\ nb.active
    /\ Len(block) = size
    /\ block # RowsOf(mem_args.columns)
    /\ SameBag(block, RowsOf(mem_args.columns))
    /\ nb.pre.start = 1

\* C33: next_batch(n) with n > 0 terminates for every MemorySource its
\* constructor accepts, one of size 0 included: a call in progress ends.
C33_NextBatchTerminates == nb.active ~> ~nb.active

\* a call on a MemorySource of size 0 has ended two passes and has no row yet
C33_Witness ==
    /\ size = 0
    /\ nb.active
    /\ nb.pre.n = 1
    /\ nb.pre.loop = 0
    /\ loop = 2
    /\ nb.batch = <<<<>>, <<>>>>

\* over one row or more a call in progress ends
TermWithRows == (nb.active /\ size >= 1) ~> ~nb.active

\* the records of the stream as rows: the cells under the names asked for
CsvRows == [i \in 1..Len(csv_records) |-> Project(csv_records[i])]
\* a stream of one record or more whose header has the columns asked for
CsvStreamOfRows == AllFieldsPresent /\ Len(csv_records) >= 1

\* C34: over a stream of M >= 1 records every pass of a CSVSource yields M
\* rows, then one epoch marker, and the rows of a pass are a permutation of the
\* records. First pass: call k returns record k and the call made with M
\* records read returns the marker. Later passes: the MemorySource built holds
\* a permutation of the records with its cursor within 0..M; a call made with
\* the cursor below M returns the row under the cursor, moves the cursor by
\* one and leaves the columns alone; a call made with the cursor at M returns
\* the marker, and the cursor is 0 again.
C34_CsvPasses ==
    /\ []((CsvStreamOfRows /\ ~csv_memory /\ csv_last.op = "next") =>
            /\ csv_pos = csv_last.pos + 1
            /\ csv_pos <= Len(csv_records)
            /\ csv_last.ret = RowVal(CsvRows[csv_pos]))
    /\ [][(CsvStreamOfRows /\ ~csv_memory /\ csv_memory') =>
            /\ csv_pos = Len(csv_records)
            /\ csv_last'.ret = None]_vars
    /\ []((CsvStreamOfRows /\ csv_memory) =>
            /\ size = Len(csv_records)
            /\ start \in 0..size
            /\ SameBag(RowsOf(columns), CsvRows))
    /\ [][(CsvStreamOfRows /\ csv_memory /\ (start' # start \/ loop' # loop)) =>
            IF start < size
            THEN /\ csv_last'.ret = RowVal(RowAt(columns, start))
                 /\ start' = start + 1
                 /\ loop' = loop
                 /\ columns' = columns
            ELSE /\ csv_last'.ret = None
                 /\ start' = 0
                 /\ loop' = loop + 1]_vars

\* the third pass over three records that differ has returned its three rows,
\* in another order than the stream's
C34_Witness ==
    /\ CsvStreamOfRows
    /\ Len(csv_records) = 3
    /\ csv_records[1] # csv_records[2]
    /\ csv_memory
    /\ loop = 1
    /\ start = 3
    /\ csv_last.ret = RowVal(RowAt(columns, 2))
    /\ RowsOf(columns) # CsvRows

\* C35: a next() call that fails because a requested column is absent from
\* the record being read appends nothing to any column buffer: the buffers are
\* as the call found them and of equal length, and the call made once the
\* stream is exhausted builds the MemorySource and returns the epoch marker.
C35_FailedCallAppendsNothing ==
    /\ (csv_last.op = "next" /\ csv_last.raised = "KeyError") =>
        /\ csv_columns = csv_last.columns
        /\ \A c, d \in DOMAIN csv_columns : Len(csv_columns[c]) = Len(csv_columns[d])
    /\ (csv_last.op = "next" /\ ~csv_last.memory /\ csv_last.pos >= Len(csv_records)) =>
        /\ csv_last.raised = ""
        /\ csv_last.ret = None
        /\ csv_memory

\* the header has x and lacks y: both calls that read a record failed, each
\* having appended the cell of x, and the call made with the stream exhausted
\* raised the ValueError of MemorySource.__init__: no MemorySource was built
C35_Witness ==
    /\ csv_fields = {"x"}
    /\ Len(csv_records) = 2
    /\ csv_pos = 2
    /\ Len(csv_columns[1]) = 2
    /\ csv_columns[2] = <<>>
    /\ csv_last.op = "next"
    /\ csv_last.pos = 2
    /\ csv_last.raised = "ValueError: All data components must have the same size."
    /\ ~csv_memory
    /\ csv_iter

\* whether the call b, on a BatchSource of batch size n > 0, ended with the
\* input's next() or a cell transform raising in the for loop: the exception
\* is the input's, or a transform's met on the cells of the last row fetched
RaisedAssembling(b) ==
    /\ b.op = "next"
    /\ batch_size > 0
    /\ b.ret.kind = "raised"
    /\ \/ b.thrown[1].by = "input"
       \/ /\ b.fetched # <<>>
          /\ \E j \in 1..Len(Meta) :
                ApplyColumnMappers(b.fetched[Len(b.fetched)][j], Meta[j]).raised

\* the batch made of rows, the rows fetched from the input in one call
BatchOf(rows) ==
    TupleOf([j \in 1..Len(Meta) |->
                ApplyBatchMappers(Meta[j],
                    [i \in 1..Len(rows) |-> ApplyColumnMappers(rows[i][j], Meta[j]).val])],
            "batch").ret

\* C36: if the input's next() or a cell transform raises while a BatchSource
\* of batch size n > 0 is assembling a batch, the eof flag is left as it was
\* (false), no batch is returned, and the rows collected in that call are in
\* no batch returned later: a batch is made of the rows fetched in the call
\* that returns it and of no other.
C36_RaiseDiscardsRows ==
    /\ [][RaisedAssembling(blast') =>
            /\ eof' = eof
            /\ ~eof
            /\ pass'.batches = pass.batches
            /\ pass'.rows = pass.rows \o blast'.fetched]_vars
    /\ []((blast.op = "next" /\ batch_size > 0 /\ blast.ret.kind = "batch") =>
            /\ blast.ret = BatchOf(blast.fetched)
            /\ Len(blast.fetched) <= batch_size)

\* a call collected the first row and ended with the input raising; the call
\* after it returned a batch of the second row alone, the last of the pass
C36_Witness ==
    /\ batch_size = 2
    /\ size = 2
    /\ cell_fns = <<>>
    /\ column_fns = <<>>
    /\ blast.op = "next"
    /\ blast.ret.kind = "batch"
    /\ blast.fetched = <<RowAt(blast.m.columns, 1)>>
    /\ blast.ret.val = <<<<blast.m.columns[1][2]>>, <<blast.m.columns[2][2]>>>>
    /\ pass.rows = RowsOf(blast.m.columns)
    /\ Len(pass.batches) = 1
    /\ blast.marker
    /\ eof

\* a step that is a build() call on the t-th object made
BuildOn(t) == wlast'.op = "build" /\ wlast'.id = t

C38_BuiltIsRegistered ==
    /\ [](\A t \in DOMAIN trainables : trainables[t].built =>
            /\ trainables[t].full_name.val \in DOMAIN INSTANCES
            /\ INSTANCES[trainables[t].full_name.val] = t)
    /\ [](\A n \in DOMAIN INSTANCES :
            /\ INSTANCES[n] \in DOMAIN trainables
            /\ trainables[INSTANCES[n]].full_name = Str(n))
    /\ [][\A t \in DOMAIN trainables : (BuildOn(t) /\ wlast'.raised = Duplicated) =>
            /\ trainables[t].full_name.val \in DOMAIN INSTANCES
            /\ INSTANCES' = INSTANCES
            /\ ~trainables'[t].built]_vars

\* two trainables named a, made without building: the first was built and
\* registered under a; build() on the second raised, and left it built and
\* not registered
C38_Witness ==
    /\ Len(trainables) = 2
    /\ trainables[1].name = Str(<<"a">>)
    /\ trainables[2].name = Str(<<"a">>)
    /\ trainables[1].built
    /\ trainables[2].built
    /\ trainables[2].full_name = Str(<<"a">>)
    /\ DOMAIN INSTANCES = {<<"a">>}
    /\ INSTANCES[<<"a">>] = 1
    /\ wlast = [op |-> "build", id |-> 2, ran |-> TRUE, raised |-> Duplicated]

\* C39: setup() on a widget that has not been built raises RuntimeError and
\* does not call _setup; _setup is only ever called on a built widget, and
\* setup() changes neither the widget nor INSTANCES.
C39_SetupNeedsBuilt ==
    /\ [][\A t \in DOMAIN trainables :
            (wlast' # wlast /\ wlast'.op = "setup" /\ wlast'.id = t) =>
                /\ IF trainables[t].built
                   THEN wlast'.ran
                   ELSE ~wlast'.ran /\ wlast'.raised = "RuntimeError"
                /\ UNCHANGED <<trainables, INSTANCES, build_called>>]_vars
    /\ []((wlast.op = "setup" /\ wlast.ran) => trainables[wlast.id].built)

\* setup() raised RuntimeError on a widget whose _build had been called and
\* had raised
C39_Witness ==
    /\ wlast = [op |-> "setup", id |-> 1, ran |-> FALSE, raised |-> "RuntimeError"]
    /\ ~trainables[1].built
    /\ build_called[1]
    /\ trainables[1].prefix = Str(<<"a", "/">>)
====
